---- MODULE Spec2Model ----
(***************************************************************************)
(* A model of the streaming noise-gating and pitch-tracking pipeline of    *)
(* pitch-perfecter.                                                        *)
(*                                                                         *)
(*   SpecTrack : the windowing iterators (SlidingWindows, StridedChunks),  *)
(*               PitchTracker::pitches and pitch_track.                    *)
(*   SpecGate  : SpectralGate (new, process, update_noise_profile,         *)
(*               update_config) over the Spectrum transform.               *)
(*   SpecYin   : ThreadSafeYinDetector shared by threads through clones.   *)
(*   SpecLatency : LatencyMetrics and the clock its marks read.            *)
(*   SpecQuiet : get_noise_window and estimate_noise_spectrum.             *)
(*   SpecSpectrum : Spectrum::from_waveform, magnitudes, to_time_domain.   *)
(*   SpecReview : ReviewItem::record_review (spaced repetition).           *)
(*   SpecMic   : MicrophoneRecorder (new, start, pause, stop, callback).   *)
(*   SpecProcessor : PitchProcessor::process_audio_chunk.                  *)
(*   SpecCapture : the input callback of AudioRecorder::build_stream.      *)
(*   SpecRecorder : AudioRecorder (start, stop, drop).                     *)
(*   SpecTrackFair : SpecTrack with loops that keep running.               *)
(*                                                                         *)
(* Samples, magnitudes and frequencies are f32 in the source.  They are    *)
(* integers here: a sample is a count of quantisation units, the transform *)
(* is computed exactly on the lengths whose roots of unity are Gaussian    *)
(* integers, and every operation that rounds in f32 (norm, division)       *)
(* rounds to an integer here.                                              *)
(***************************************************************************)
EXTENDS Integers, Sequences, FiniteSets, TLC

VARIABLES
    \* ---- windowing and pitch tracking
    api,          \* which entry point runs: "pitches", "pitch_track", "strided"
    audio,        \* the input buffer: [samples, sample_rate]
    tracker,      \* PitchTracker / pitch_track arguments: [window_size, step_size, detector]
    position,     \* SlidingWindows.position / StridedChunks.current_index / pitch_track's i
    windows,      \* the segments yielded so far, in order
    calls,        \* the detector invocations so far: [segment, result]
    pitches,      \* the Vec<f32> being built
    pc,           \* "iterating", "returned" or "panicked"
    \* ---- spectral gate
    gate,         \* SpectralGate: [noise_spectrum, noise_magnitudes, config]
    last,         \* what the latest gate operation did (observation record)
    \* ---- the other components, one record each
    yin,          \* ThreadSafeYinDetector clones: the shared mutex and each thread's position
    metrics,      \* LatencyMetrics, the clock, and the instants the marks recorded
    quiet,        \* get_noise_window / estimate_noise_spectrum: input and result
    spect,        \* Spectrum: the waveform, the spectrum built from it, and what was read from it
    review,       \* ReviewItem and what the latest record_review was given
    mic,          \* MicrophoneRecorder: its stream and what the calls returned
    processor,    \* PitchProcessor::process_audio_chunk: the chunk and what was done with it
    capture,      \* the input callback of AudioRecorder: shared buffer, blocks processed
    recorder      \* AudioRecorder: its stream and what start and stop returned

trackVars == <<api, audio, tracker, position, windows, calls, pitches, pc>>
gateVars  == <<gate, last>>
moreVars  == <<review, mic, processor, capture, recorder>>
restVars  == <<yin, metrics, quiet, spect, moreVars>>
coreVars  == <<trackVars, gateVars, yin, metrics, quiet, spect>>
vars      == <<api, audio, tracker, position, windows, calls, pitches, pc, gate, last,
               yin, metrics, quiet, spect, review, mic, processor, capture, recorder>>

\* Option<T>: None is the empty sequence, Some(x) the sequence of x alone.
None == << >>
Some(x) == <<x>>
Unwrap(o) == o[1]

(***************************************************************************)
(* Bounds of the model.                                                    *)
(***************************************************************************)
MaxLen  == 4      \* longest sample buffer given to the windowing
MaxWin  == 3      \* largest window_size
MaxStep == 3      \* largest step_size

Min(a, b) == IF a < b THEN a ELSE b
Max(a, b) == IF a > b THEN a ELSE b

(***************************************************************************)
(* Inputs of the windowing.  Sample k of a buffer is k (all distinct), so  *)
(* a segment identifies the offsets it was cut from.                       *)
(***************************************************************************)
SampleRates == {44100, 48000}
Buffers     == {[i \in 1..n |-> i] : n \in 0..MaxLen}
WindowSizes == 1..MaxWin
StepSizes   == 0..MaxStep
Freqs       == {123, 440}

\* pitch_detection::Pitch<f32>
Pitches == [frequency : Freqs, clarity : {1}]

\* The detectors a tracker can be built from.  window_size is the length the
\* detector was constructed for; None stands for a detector that accepts any
\* length (the DummyDetector and NoneDetector of the tests).
Detectors == [window_size : {Some(w) : w \in WindowSizes} \cup {None}]

\* &samples[from .. from + len], offsets counted from 0 as in the source.
Slice(s, from, len) == SubSeq(s, from + 1, from + len)

\* MonoAudio::new
MonoAudio(s, rate) == [samples |-> s, sample_rate |-> rate]

(***************************************************************************)
(* Windowing iterators.                                                    *)
(***************************************************************************)

\* SlidingWindows::next advancing by the window instead of the step.
SlidingWindows_next_hop(samples, sample_rate, window_size, step_size, pos) ==
    IF pos + window_size > Len(samples)
    THEN [item |-> None, position |-> pos]
    ELSE [item     |-> Some(MonoAudio(Slice(samples, pos, window_size), sample_rate)),
          position |-> pos + window_size]

\* SlidingWindows::next that ends only at the end of the buffer, so that the
\* last window is cut short.
SlidingWindows_next_partial(samples, sample_rate, window_size, step_size, pos) ==
    IF pos >= Len(samples)
    THEN [item |-> None, position |-> pos]
    ELSE [item     |-> Some(MonoAudio(Slice(samples, pos,
                                            Min(window_size, Len(samples) - pos)),
                                      sample_rate)),
          position |-> pos + step_size]

\* SlidingWindows::next: the item (None or a MonoAudio) and the new position.
SlidingWindows_next(samples, sample_rate, window_size, step_size, pos) ==
    IF pos + window_size > Len(samples)
    THEN [item |-> None, position |-> pos]
    ELSE [item     |-> Some(MonoAudio(Slice(samples, pos, window_size), sample_rate)),
          position |-> pos + step_size]

\* StridedChunks::next that advances by at least one sample.
StridedChunks_next_min_step(data, chunk_size, step_size, current_index) ==
    IF current_index + chunk_size > Len(data)
    THEN [item |-> None, current_index |-> current_index]
    ELSE [item          |-> Some(Slice(data, current_index, chunk_size)),
          current_index |-> current_index + Max(step_size, 1)]

\* StridedChunks::next: the item (None or a chunk) and the new current_index.
StridedChunks_next(data, chunk_size, step_size, current_index) ==
    IF current_index + chunk_size > Len(data)
    THEN [item |-> None, current_index |-> current_index]
    ELSE [item          |-> Some(Slice(data, current_index, chunk_size)),
          current_index |-> current_index + step_size]

(***************************************************************************)
(* The pitch-estimation collaborator.  YINDetector::get_pitch asserts that *)
(* the signal has the length it was constructed for and panics otherwise   *)
(* (the should_panic tests of yin.rs); what it estimates is not modelled:  *)
(* `estimate` is any of None or Some(pitch).                               *)
(***************************************************************************)
Estimates == {Some(p) : p \in Pitches} \cup {None}

get_mono_pitch(detector, mono_audio, estimate) ==
    IF /\ detector.window_size # None
       /\ Len(mono_audio.samples) # Unwrap(detector.window_size)
    THEN [panicked |-> TRUE,  pitch |-> None]
    ELSE [panicked |-> FALSE, pitch |-> estimate]

\* The loop body without its else: 0.0 is pushed after an estimate too.
PushPitch_no_else(ps, result) ==
    IF result # None THEN Append(Append(ps, Unwrap(result).frequency), 0) ELSE Append(ps, 0)

\* The loop body that drops the segments without an estimate.
PushPitch_skip_none(ps, result) ==
    IF result # None THEN Append(ps, Unwrap(result).frequency) ELSE ps

\* The body of the loop of PitchTracker::pitches and of pitch_track:
\* push the frequency of an estimate, 0.0 for no estimate.
PushPitch(ps, result) ==
    IF result # None THEN Append(ps, Unwrap(result).frequency) ELSE Append(ps, 0)

\* A run that never ends (step_size = 0) is followed for this many segments.
MaxYield == MaxLen + 2

(***************************************************************************)
(* Initial states of the windowing: a call of one of the entry points on   *)
(* any buffer with any window and step.  pitch_track builds its own        *)
(* YINDetector::new(window_size, padding); the strided iteration has no    *)
(* detector.                                                                *)
(***************************************************************************)
TrackInit ==
    /\ api \in {"pitches", "pitch_track", "strided"}
    /\ audio \in {MonoAudio(b, r) : b \in Buffers, r \in SampleRates}
    /\ \E w \in WindowSizes, s \in StepSizes, d \in Detectors :
          tracker = [window_size |-> w, step_size |-> s,
                     detector |-> CASE api = "pitches"     -> d
                                    [] api = "pitch_track" -> [window_size |-> Some(w)]
                                    [] OTHER               -> [window_size |-> None]]
    /\ position = 0
    /\ windows = << >>
    /\ calls = << >>
    /\ pitches = << >>
    /\ pc = "iterating"
    \* the gate is not used while the windowing runs
    /\ gate = [noise_spectrum |-> << >>, noise_magnitudes |-> << >>,
               config |-> [noise_threshold_db |-> 6, smoothing_window |-> 1]]
    /\ last = [op |-> "new", input |-> << >>, before |-> gate, output |-> << >>,
               transforms |-> 0, spectrum |-> << >>, gated |-> << >>, bins |-> << >>,
               first |-> None, mixed |-> FALSE, arg |-> None, smoothed |-> FALSE]
    \* the other components are not used
    /\ yin = None
    /\ metrics = None
    /\ quiet = None
    /\ spect = None
    /\ review = None
    /\ mic = None
    /\ processor = None
    /\ capture = None
    /\ recorder = None

\* One iteration of `for window in audio.sliding_windows(..)` in
\* PitchTracker::pitches, or the return of `pitches` when the iterator ends.
PitchesStep ==
    /\ api = "pitches"
    /\ pc = "iterating"
    /\ Len(windows) < MaxYield
    /\ LET r == SlidingWindows_next(audio.samples, audio.sample_rate,
                                    tracker.window_size, tracker.step_size, position)
       IN  IF r.item = None
           THEN /\ pc' = "returned"
                /\ UNCHANGED <<position, windows, calls, pitches>>
           ELSE /\ position' = r.position
                /\ windows' = Append(windows, Unwrap(r.item))
                /\ \E e \in Estimates :
                      LET res == get_mono_pitch(tracker.detector, Unwrap(r.item), e)
                      IN  /\ calls' = Append(calls, [segment |-> Unwrap(r.item), result |-> res])
                          /\ IF res.panicked
                             THEN pc' = "panicked" /\ pitches' = pitches
                             ELSE pc' = pc /\ pitches' = PushPitch(pitches, res.pitch)
    /\ UNCHANGED <<api, audio, tracker>>
    /\ UNCHANGED <<gateVars, restVars>>

\* The while condition that stops one window early on an exact fit.
pitch_track_continues_strict(i, window_size, len) == i + window_size < len

\* The condition of the while loop of pitch_track.
pitch_track_continues(i, window_size, len) == i + window_size <= len

\* One iteration of the while loop of pitch_track, or its return.
PitchTrackStep ==
    /\ api = "pitch_track"
    /\ pc = "iterating"
    /\ Len(windows) < MaxYield
    /\ IF ~ pitch_track_continues(position, tracker.window_size, Len(audio.samples))
       THEN /\ pc' = "returned"
            /\ UNCHANGED <<position, windows, calls, pitches>>
       ELSE LET frame == MonoAudio(Slice(audio.samples, position, tracker.window_size),
                                   audio.sample_rate)
            IN  /\ windows' = Append(windows, frame)
                /\ position' = position + tracker.step_size
                /\ \E e \in Estimates :
                      LET res == get_mono_pitch(tracker.detector, frame, e)
                      IN  /\ calls' = Append(calls, [segment |-> frame, result |-> res])
                          /\ IF res.panicked
                             THEN pc' = "panicked" /\ pitches' = pitches
                             ELSE pc' = pc /\ pitches' = PushPitch(pitches, res.pitch)
    /\ UNCHANGED <<api, audio, tracker>>
    /\ UNCHANGED <<gateVars, restVars>>

\* One next() of the sliding_windows of src/audio.rs:
\* StridedChunks::new(samples, window_size, step_size).map(MonoAudio::new(chunk, rate)).
StridedStep ==
    /\ api = "strided"
    /\ pc = "iterating"
    /\ Len(windows) < MaxYield
    /\ LET r == StridedChunks_next(audio.samples, tracker.window_size,
                                   tracker.step_size, position)
       IN  IF r.item = None
           THEN /\ pc' = "returned"
                /\ UNCHANGED <<position, windows>>
           ELSE /\ position' = r.current_index
                /\ windows' = Append(windows, MonoAudio(Unwrap(r.item), audio.sample_rate))
                /\ pc' = pc
    /\ UNCHANGED <<api, audio, tracker, calls, pitches>>
    /\ UNCHANGED <<gateVars, restVars>>

TrackNext == PitchesStep \/ PitchTrackStep \/ StridedStep

SpecTrack == TrackInit /\ [][TrackNext]_vars

\* The loops are sequential code: a loop that can take a step takes it.
SpecTrackFair == SpecTrack /\ WF_vars(TrackNext)

(***************************************************************************)
(* Spectral transform (Spectrum).                                          *)
(*                                                                         *)
(* The transform is rustfft's: an unnormalised DFT forward, an             *)
(* unnormalised inverse DFT back.  It is computed exactly on the lengths   *)
(* 0, 1, 2 and 4, whose roots of unity are 1, -i, -1 and i.                *)
(***************************************************************************)
FftLens == {0, 1, 2, 4}

Abs(x) == IF x < 0 THEN -x ELSE x

\* Division rounding towards zero: the integer nearest to a / b on its side.
TruncDiv(a, b) == IF a >= 0 THEN a \div b ELSE -((-a) \div b)

\* f32 division: 0.0 / 0.0 is NaN, which the later .max(0.0) turns into 0.0.
F32Div(a, b) == IF b = 0 THEN 0 ELSE a \div b

\* Complex32::new
Complex(re, im) == [re |-> re, im |-> im]

\* c * (-i)^q
Rot(c, q) ==
    CASE q % 4 = 0 -> c
      [] q % 4 = 1 -> Complex(c.im, -c.re)
      [] q % 4 = 2 -> Complex(-c.re, -c.im)
      [] OTHER     -> Complex(-c.im, c.re)

\* The spacing of the f32 values around a magnitude m held as a whole
\* number of units: the least power of two u with m / u below 2^24.
RECURSIVE UlpFrom(_, _)
UlpFrom(m, u) == IF m \div u < 16777216 THEN u ELSE UlpFrom(m, 2 * u)

\* The f32 nearest to x (24 significant bits, ties to the even one).
F32Round(x) ==
    LET m  == Abs(x)
        u  == UlpFrom(m, 1)
        q  == m \div u
        r  == m % u
        up == 2 * r > u \/ (2 * r = u /\ q % 2 = 1)
        v  == (IF up THEN q + 1 ELSE q) * u
    IN  IF x < 0 THEN -v ELSE v

\* A sum of complex numbers, each addition rounded to f32.
RECURSIVE CSum(_)
CSum(cs) ==
    IF cs = << >> THEN Complex(0, 0)
    ELSE LET r == CSum(Tail(cs))
         IN  Complex(F32Round(Head(cs).re + r.re), F32Round(Head(cs).im + r.im))

RECURSIVE Sum(_)
Sum(xs) == IF xs = << >> THEN 0 ELSE Head(xs) + Sum(Tail(xs))

\* The DFT of buffer: X[k] = sum_j x[j] * e^(-+ 2 pi i j k / n), dir = 1 forward
\* and dir = 3 inverse (quarter turns per step of 4/n).
Dft(buffer, dir) ==
    LET n == Len(buffer)
    IN  [k \in 1..n |->
            CSum([j \in 1..n |-> Rot(buffer[j], dir * (j - 1) * (k - 1) * (4 \div n))])]

\* compute_spectrum
compute_spectrum(signal, n_fft) ==
    Dft([j \in 1..Len(signal) |-> Complex(signal[j], 0)], 1)

\* Spectrum::from_waveform
from_waveform(signal) ==
    [complex |-> compute_spectrum(signal, Len(signal)), n |-> Len(signal)]

\* Complex::norm, rounded down to a whole unit.
Norm(c) ==
    LET sq == c.re * c.re + c.im * c.im
    IN  IF c.im = 0 THEN Abs(c.re)
        ELSE IF c.re = 0 THEN Abs(c.im)
        ELSE CHOOSE r \in 0..(Abs(c.re) + Abs(c.im)) : r * r <= sq /\ sq < (r + 1) * (r + 1)

\* The inverse transform left without its division by n.
to_time_domain_unnormalised(spectrum) ==
    LET buffer == Dft(spectrum.complex, 3)
    IN  [j \in 1..Len(buffer) |-> buffer[j].re]

\* Spectrum::to_time_domain: the inverse transform, real part, divided by n.
to_time_domain(spectrum) ==
    LET buffer == Dft(spectrum.complex, 3)
    IN  [j \in 1..Len(buffer) |-> TruncDiv(buffer[j].re, spectrum.n)]

(***************************************************************************)
(* Spectral gate.                                                          *)
(***************************************************************************)
MaxAmp    == 8     \* amplitude of the samples, in quantisation units
MaxSmooth == 3     \* largest smoothing_window

\* Gains and the threshold multiplier are held in thousandths.
Milli == 1000

\* noise_threshold_db values; -1000 dB is a multiplier that underflows to 0.0.
Dbs == {-1000, -6, 0, 6, 20}

\* db_to_linear: 10^(db/20), in thousandths.
db_to_linear(db) ==
    CASE db = -1000 -> 0
      [] db = -6    -> 501
      [] db = 0     -> 1000
      [] db = 6     -> 1995
      [] db = 20    -> 10000

\* SpectralGateConfig
Configs == [noise_threshold_db : Dbs, smoothing_window : 0..MaxSmooth]

\* SpectralGateConfig::default
DefaultConfig == [noise_threshold_db |-> 6, smoothing_window |-> 1]

\* Waveforms of the transform's lengths: a burst of k samples of amplitude
\* amp, then silence.
Waveforms(amp) ==
    UNION {{[i \in 1..n |-> IF i <= k THEN amp ELSE 0] : k \in 0..n} : n \in FftLens}

\* The noise recordings a profile is built from, and the processed inputs.
NoiseWaves == Waveforms(MaxAmp)
Inputs     == Waveforms(MaxAmp)

\* SpectralGate::smooth_magnitudes
smooth_magnitudes(magnitudes, window_size) ==
    LET half_window == window_size \div 2
    IN  [i \in 1..Len(magnitudes) |->
            LET start == Max((i - 1) - half_window, 0)
                end   == Min((i - 1) + half_window + 1, Len(magnitudes))
                sum   == Sum(Slice(magnitudes, start, end - start))
                count == end - start
            IN  sum \div count]

\* A guard that lets only a window of zero bins skip the averaging.
returns_unsmoothed_zero_only(config) == config.smoothing_window = 0

\* The early return of compute_noise_magnitudes_static: the magnitudes are
\* returned as they are and smooth_magnitudes is not called.
returns_unsmoothed(config) == config.smoothing_window <= 1

\* SpectralGate::compute_noise_magnitudes_static
compute_noise_magnitudes_static(noise_spectrum, config) ==
    LET magnitudes == [i \in 1..Len(noise_spectrum.complex) |->
                          Norm(noise_spectrum.complex[i])]
    IN  IF returns_unsmoothed(config)
        THEN magnitudes
        ELSE smooth_magnitudes(magnitudes, config.smoothing_window)

\* SpectralGate::new
new(noise_spectrum, config) ==
    [noise_spectrum   |-> noise_spectrum,
     noise_magnitudes |-> compute_noise_magnitudes_static(noise_spectrum, config),
     config           |-> config]

\* SpectralGate::with_defaults
with_defaults(noise_spectrum) == new(noise_spectrum, DefaultConfig)

\* The noise level of a bin beyond the profile taken from the profile's last bin.
NoiseLevel_clamped(self, i) ==
    IF i <= Len(self.noise_magnitudes) THEN self.noise_magnitudes[i]
    ELSE IF self.noise_magnitudes = << >> THEN 0
    ELSE self.noise_magnitudes[Len(self.noise_magnitudes)]

\* self.noise_magnitudes.get(i).copied().unwrap_or(0.0)
NoiseLevel(self, i) ==
    IF i <= Len(self.noise_magnitudes) THEN self.noise_magnitudes[i] ELSE 0

\* The gating test with <= in place of <.
BelowThreshold_or_equal(signal_magnitude, noise_level, threshold_multiplier) ==
    signal_magnitude * Milli <= noise_level * threshold_multiplier

\* signal_magnitude < threshold, where threshold = noise_level * threshold_multiplier
BelowThreshold(signal_magnitude, noise_level, threshold_multiplier) ==
    signal_magnitude * Milli < noise_level * threshold_multiplier

\* The gain of a gated bin, in thousandths, and whether the division
\* signal_magnitude / threshold was evaluated to get it.
Gain(signal_magnitude, noise_level, threshold_multiplier) ==
    IF noise_level > 0
    THEN [divided |-> TRUE,
          gain    |-> Min(Max(F32Div(signal_magnitude * Milli * Milli,
                                     noise_level * threshold_multiplier), 0), Milli)]
    ELSE [divided |-> FALSE, gain |-> Milli]

\* One iteration of the loop of apply_gate: the bin after gating and what
\* was computed on the way.
GateBin(self, i, complex_sample, threshold_multiplier) ==
    LET noise_level      == NoiseLevel(self, i)
        signal_magnitude == Norm(complex_sample)
        threshold        == noise_level * threshold_multiplier
    IN  IF BelowThreshold(signal_magnitude, noise_level, threshold_multiplier)
        THEN LET g == Gain(signal_magnitude, noise_level, threshold_multiplier)
             IN  [bin       |-> Complex(TruncDiv(complex_sample.re * g.gain, Milli),
                                        TruncDiv(complex_sample.im * g.gain, Milli)),
                  gated     |-> TRUE,
                  divided   |-> g.divided,
                  threshold |-> threshold]
        ELSE [bin |-> complex_sample, gated |-> FALSE, divided |-> FALSE,
              threshold |-> threshold]

\* SpectralGate::apply_gate
apply_gate(self, spectrum, threshold_multiplier) ==
    [i \in 1..Len(spectrum.complex) |->
        GateBin(self, i, spectrum.complex[i], threshold_multiplier)]

\* What a call of process leaves to be observed: the returned samples, the
\* number of transforms invoked, the spectrum before and after apply_gate and
\* the per-bin record of apply_gate.
ProcessResult(output, transforms, spectrum, gated, bins) ==
    [output |-> output, transforms |-> transforms, spectrum |-> spectrum,
     gated |-> gated, bins |-> bins]

\* process trimming its output to the length of the noise profile.
process_trim_profile(self, samples) ==
    IF samples = << >>
    THEN ProcessResult(<< >>, 0, << >>, << >>, << >>)
    ELSE LET threshold_multiplier == db_to_linear(self.config.noise_threshold_db)
             spectrum == from_waveform(samples)
             bins     == apply_gate(self, spectrum, threshold_multiplier)
             gated    == [i \in 1..Len(bins) |-> bins[i].bin]
             output   == to_time_domain([complex |-> gated, n |-> spectrum.n])
         IN  ProcessResult(Slice(output, 0, Min(Len(samples), Len(self.noise_magnitudes))),
                           1, spectrum.complex, gated, bins)

\* process carrying the previous chunk over: the previous output is added to
\* the start of this one.
process_overlap(self, samples) ==
    IF samples = << >>
    THEN ProcessResult(<< >>, 0, << >>, << >>, << >>)
    ELSE LET threshold_multiplier == db_to_linear(self.config.noise_threshold_db)
             spectrum == from_waveform(samples)
             bins     == apply_gate(self, spectrum, threshold_multiplier)
             gated    == [i \in 1..Len(bins) |-> bins[i].bin]
             output   == to_time_domain([complex |-> gated, n |-> spectrum.n])
             carried  == [i \in 1..Len(output) |->
                             output[i] + (IF last.op = "process" /\ i <= Len(last.output)
                                          THEN last.output[i] ELSE 0)]
         IN  ProcessResult(Slice(carried, 0, Len(samples)), 1, spectrum.complex, gated, bins)

\* SpectralGate::process
process(self, samples) ==
    IF samples = << >>
    THEN ProcessResult(<< >>, 0, << >>, << >>, << >>)
    ELSE LET threshold_multiplier == db_to_linear(self.config.noise_threshold_db)
             spectrum == from_waveform(samples)
             bins     == apply_gate(self, spectrum, threshold_multiplier)
             gated    == [i \in 1..Len(bins) |-> bins[i].bin]
             output   == to_time_domain([complex |-> gated, n |-> spectrum.n])
         IN  ProcessResult(Slice(output, 0, Len(samples)), 1, spectrum.complex, gated, bins)

\* update_config recomputing the magnitudes with the configuration it replaces.
update_config_stale(self, config) ==
    [self EXCEPT !.noise_magnitudes =
                     compute_noise_magnitudes_static(self.noise_spectrum, self.config),
                 !.config = config]

\* SpectralGate::update_config
update_config(self, config) ==
    [self EXCEPT !.noise_magnitudes =
                     compute_noise_magnitudes_static(self.noise_spectrum, config),
                 !.config = config]

\* An update of the profile that rebuilds the gate with the default configuration.
update_noise_profile_defaults(self, noise_spectrum) == with_defaults(noise_spectrum)

\* SpectralGate::update_noise_profile
update_noise_profile(self, noise_spectrum) ==
    [self EXCEPT !.noise_magnitudes =
                     compute_noise_magnitudes_static(noise_spectrum, self.config),
                 !.noise_spectrum = noise_spectrum]

\* The observation record: the latest operation, what it was given, the gate
\* it found, what process returned, `first`, the first input processed since
\* the gate was last configured, with its output, and `mixed`, whether another
\* input than that one has been processed since.  `arg` is the argument of an
\* update (a configuration or a spectrum) and `smoothed` whether building the
\* noise magnitudes went through smooth_magnitudes; Updated fills them in.
Observed(op, input, before, result, first, mixed) ==
    [op |-> op, input |-> input, before |-> before, output |-> result.output,
     transforms |-> result.transforms, spectrum |-> result.spectrum,
     gated |-> result.gated, bins |-> result.bins, first |-> first, mixed |-> mixed,
     arg |-> None, smoothed |-> FALSE]

NoResult == ProcessResult(<< >>, 0, << >>, << >>, << >>)

\* The observation of new, update_noise_profile and update_config: the
\* argument, the gate before, and whether compute_noise_magnitudes_static,
\* called with `config`, went on to smooth_magnitudes.
Updated(op, arg, before, config) ==
    [Observed(op, << >>, before, NoResult, None, FALSE)
        EXCEPT !.arg = arg, !.smoothed = ~returns_unsmoothed(config)]

\* A gate built by new (with_defaults is new with the default configuration)
\* from the spectrum of a noise recording.
GateInit ==
    /\ \E noise \in NoiseWaves, config \in Configs :
          /\ gate = new(from_waveform(noise), config)
          /\ last = Updated("new", None, gate, config)
    \* the windowing is not used while the gate runs
    /\ api = "strided"
    /\ audio = MonoAudio(<< >>, 44100)
    /\ tracker = [window_size |-> 1, step_size |-> 1, detector |-> [window_size |-> None]]
    /\ position = 0
    /\ windows = << >>
    /\ calls = << >>
    /\ pitches = << >>
    /\ pc = "returned"
    \* the other components are not used
    /\ yin = None
    /\ metrics = None
    /\ quiet = None
    /\ spect = None
    /\ review = None
    /\ mic = None
    /\ processor = None
    /\ capture = None
    /\ recorder = None

\* gate.process(&samples)
Process ==
    /\ \E samples \in Inputs :
          LET result == process(gate, samples)
          IN  last' = Observed("process", samples, gate, result,
                               IF last.first = None
                               THEN Some([input |-> samples, output |-> result.output])
                               ELSE last.first,
                               \/ last.mixed
                               \/ last.first # None /\ Unwrap(last.first).input # samples)
    /\ UNCHANGED gate
    /\ UNCHANGED <<trackVars, restVars>>

\* gate.update_noise_profile(Spectrum::from_waveform(&noise))
UpdateNoiseProfile ==
    /\ \E noise \in NoiseWaves :
          /\ gate' = update_noise_profile(gate, from_waveform(noise))
          /\ last' = Updated("update_noise_profile", from_waveform(noise), gate, gate.config)
    /\ UNCHANGED <<trackVars, restVars>>

\* gate.update_config(config)
UpdateConfig ==
    /\ \E config \in Configs :
          /\ gate' = update_config(gate, config)
          /\ last' = Updated("update_config", config, gate, config)
    /\ UNCHANGED <<trackVars, restVars>>

GateNext == Process \/ UpdateNoiseProfile \/ UpdateConfig

SpecGate == GateInit /\ [][GateNext]_vars

(***************************************************************************)
(* ThreadSafeYinDetector: detectors held by several threads, each wrapping *)
(* an Arc<Mutex<YINDetector>>.  An estimator is named by a number; the     *)
(* mutex of an estimator is [holder, poisoned].                            *)
(***************************************************************************)
NumThreads == 2      \* threads holding a detector
MaxCalls   == 3      \* calls of get_mono_pitch that return, over all threads

Threads    == 1..NumThreads
Estimators == 1..NumThreads

\* The window the estimator is built for, and the signals it is given: one
\* of that length and one that is longer.
YinWindow  == 2
YinSignals == {[i \in 1..n |-> i] : n \in {YinWindow, YinWindow + 1}}

\* ThreadSafeYinDetector::new: a fresh estimator behind a fresh mutex.
ThreadSafeYinDetector_new(window_size) ==
    [window_size |-> window_size, detector |-> 1]

\* A clone that wraps an estimator of its own.
clone_detector_own_estimator(self) ==
    [self EXCEPT !.detector = self.detector + 1]

\* ThreadSafeYinDetector::clone_detector: Arc::clone of the same mutex.
clone_detector(self) ==
    [window_size |-> self.window_size, detector |-> self.detector]

\* Mutex::lock returns once no thread holds the mutex.
lock_returns(mutex) == mutex.holder = None

\* A guard dropped during a panic that leaves the mutex as it was locked.
unlock_without_poison(mutex) == [mutex EXCEPT !.holder = None]

\* The guard is dropped while its thread unwinds from a panic: the mutex is
\* released and poisoned.
unlock_while_panicking(mutex) == [holder |-> None, poisoned |-> TRUE]

YinInit ==
    /\ yin = [handle  |-> [t \in Threads |->
                              IF t = 1 THEN Some(ThreadSafeYinDetector_new(YinWindow))
                              ELSE None],
              mutex   |-> [e \in Estimators |-> [holder |-> None, poisoned |-> FALSE]],
              pc      |-> [t \in Threads |-> "idle"],
              signal  |-> [t \in Threads |-> << >>],
              result  |-> [t \in Threads |-> None],
              returned |-> 0]
    \* the other components are not used
    /\ api = "strided"
    /\ audio = MonoAudio(<< >>, 44100)
    /\ tracker = [window_size |-> 1, step_size |-> 1, detector |-> [window_size |-> None]]
    /\ position = 0
    /\ windows = << >>
    /\ calls = << >>
    /\ pitches = << >>
    /\ review = None
    /\ mic = None
    /\ processor = None
    /\ capture = None
    /\ recorder = None
    /\ pc = "returned"
    /\ gate = None
    /\ last = None
    /\ metrics = None
    /\ quiet = None
    /\ spect = None

\* A thread that holds a detector hands a clone of it to a thread that has none.
CloneDetector ==
    /\ \E t \in Threads, u \in Threads :
          /\ yin.handle[t] # None
          /\ yin.handle[u] = None
          /\ yin.pc[t] = "idle"
          /\ yin' = [yin EXCEPT !.handle[u] = Some(clone_detector(Unwrap(yin.handle[t])))]
    /\ UNCHANGED <<trackVars, gateVars, moreVars, metrics, quiet, spect>>

\* A thread enters get_mono_pitch with a signal and reaches detector.lock().
CallGetMonoPitch ==
    /\ \E t \in Threads, signal \in YinSignals :
          /\ yin.handle[t] # None
          /\ yin.pc[t] = "idle"
          /\ yin.returned < MaxCalls
          /\ yin' = [yin EXCEPT !.pc[t] = "locking", !.signal[t] = signal]
    /\ UNCHANGED <<trackVars, gateVars, moreVars, metrics, quiet, spect>>

\* detector.lock().unwrap(): the thread gets the mutex once it is free; on a
\* poisoned mutex lock() returns Err, unwrap panics and the guard in the
\* error is dropped.
Lock ==
    /\ \E t \in Threads :
          /\ yin.pc[t] = "locking"
          /\ LET e == Unwrap(yin.handle[t]).detector
             IN  /\ lock_returns(yin.mutex[e])
                 /\ IF yin.mutex[e].poisoned
                    THEN yin' = [yin EXCEPT !.pc[t] = "panicked"]
                    ELSE yin' = [yin EXCEPT !.pc[t] = "estimating",
                                            !.mutex[e].holder = Some(t)]
    /\ UNCHANGED <<trackVars, gateVars, moreVars, metrics, quiet, spect>>

\* get_pitch runs under the guard and the guard is dropped when the call
\* expression ends: on return, or while unwinding from a panic of get_pitch,
\* which poisons the mutex.
GetPitch ==
    /\ \E t \in Threads, estimate \in Estimates :
          /\ yin.pc[t] = "estimating"
          /\ LET self == Unwrap(yin.handle[t])
                 e    == self.detector
                 res  == get_mono_pitch([window_size |-> Some(self.window_size)],
                                        MonoAudio(yin.signal[t], 44100), estimate)
             IN  IF res.panicked
                 THEN yin' = [yin EXCEPT !.pc[t] = "panicked",
                                         !.mutex[e] = unlock_while_panicking(@)]
                 ELSE yin' = [yin EXCEPT !.pc[t] = "idle",
                                         !.mutex[e].holder = None,
                                         !.result[t] = res.pitch,
                                         !.returned = @ + 1]
    /\ UNCHANGED <<trackVars, gateVars, moreVars, metrics, quiet, spect>>

YinNext == CloneDetector \/ CallGetMonoPitch \/ Lock \/ GetPitch

SpecYin == YinInit /\ [][YinNext]_vars

(***************************************************************************)
(* LatencyMetrics.  An Instant is a reading of a monotonic clock and a     *)
(* Duration a non-negative number, both in milliseconds.                   *)
(***************************************************************************)
MaxTime == 3      \* latest reading of the clock

DeviceLatencies == {0, 5}

\* LatencyMetrics::new
LatencyMetrics_new ==
    [callback_timestamp |-> None, processing_start |-> None,
     processing_end |-> None, input_device_latency |-> None]

\* LatencyMetrics::with_callback_timestamp
with_callback_timestamp(timestamp) ==
    [callback_timestamp |-> Some(timestamp), processing_start |-> None,
     processing_end |-> None, input_device_latency |-> None]

\* LatencyMetrics::mark_processing_start, with the reading Instant::now() gave
mark_processing_start(self, now) == [self EXCEPT !.processing_start = Some(now)]

\* LatencyMetrics::mark_processing_end
mark_processing_end(self, now) == [self EXCEPT !.processing_end = Some(now)]

\* LatencyMetrics::set_input_device_latency
set_input_device_latency(self, latency) ==
    [self EXCEPT !.input_device_latency = Some(latency)]

\* Instant::duration_since: the time elapsed from `earlier`, or zero when
\* `earlier` is the later of the two (a Duration is never negative).
duration_since(instant, earlier) == Max(instant - earlier, 0)

\* The processing time measured from the callback timestamp.
processing_duration_from_callback(self) ==
    IF self.callback_timestamp # None /\ self.processing_end # None
    THEN Some(duration_since(Unwrap(self.processing_end), Unwrap(self.callback_timestamp)))
    ELSE None

\* LatencyMetrics::processing_duration
processing_duration(self) ==
    IF self.processing_start # None /\ self.processing_end # None
    THEN Some(duration_since(Unwrap(self.processing_end), Unwrap(self.processing_start)))
    ELSE None

\* LatencyMetrics::total_latency
total_latency(self) ==
    IF self.callback_timestamp # None /\ self.processing_end # None
    THEN Some(duration_since(Unwrap(self.processing_end), Unwrap(self.callback_timestamp)))
    ELSE None

\* An end-to-end latency that is reported only when both parts are known.
end_to_end_latency_needs_both(self) ==
    IF total_latency(self) # None /\ self.input_device_latency # None
    THEN Some(Unwrap(total_latency(self)) + Unwrap(self.input_device_latency))
    ELSE None

\* LatencyMetrics::end_to_end_latency
end_to_end_latency(self) ==
    LET total  == total_latency(self)
        device == self.input_device_latency
    IN  CASE total # None /\ device # None -> Some(Unwrap(total) + Unwrap(device))
          [] total # None /\ device = None -> total
          [] total = None /\ device # None -> device
          [] OTHER                         -> None

\* A record built by new, or by with_callback_timestamp from a reading the
\* clock gave at or before now.
LatencyInit ==
    /\ \E now \in 0..1 :
          \E m \in {LatencyMetrics_new} \cup {with_callback_timestamp(ts) : ts \in 0..now} :
              metrics = [m |-> m, now |-> now]
    \* the other components are not used
    /\ api = "strided"
    /\ audio = MonoAudio(<< >>, 44100)
    /\ tracker = [window_size |-> 1, step_size |-> 1, detector |-> [window_size |-> None]]
    /\ position = 0
    /\ windows = << >>
    /\ calls = << >>
    /\ pitches = << >>
    /\ review = None
    /\ mic = None
    /\ processor = None
    /\ capture = None
    /\ recorder = None
    /\ pc = "returned"
    /\ gate = None
    /\ last = None
    /\ yin = None
    /\ quiet = None
    /\ spect = None

\* Time passes.
Tick ==
    /\ metrics.now < MaxTime
    /\ metrics' = [metrics EXCEPT !.now = @ + 1]
    /\ UNCHANGED <<trackVars, gateVars, moreVars, yin, quiet, spect>>

\* metrics.mark_processing_start()
MarkProcessingStart ==
    /\ metrics' = [metrics EXCEPT !.m = mark_processing_start(metrics.m, metrics.now)]
    /\ UNCHANGED <<trackVars, gateVars, moreVars, yin, quiet, spect>>

\* metrics.mark_processing_end()
MarkProcessingEnd ==
    /\ metrics' = [metrics EXCEPT !.m = mark_processing_end(metrics.m, metrics.now)]
    /\ UNCHANGED <<trackVars, gateVars, moreVars, yin, quiet, spect>>

\* metrics.set_input_device_latency(latency)
SetInputDeviceLatency ==
    /\ \E latency \in DeviceLatencies :
          metrics' = [metrics EXCEPT !.m = set_input_device_latency(metrics.m, latency)]
    /\ UNCHANGED <<trackVars, gateVars, moreVars, yin, quiet, spect>>

LatencyNext == Tick \/ MarkProcessingStart \/ MarkProcessingEnd \/ SetInputDeviceLatency

SpecLatency == LatencyInit /\ [][LatencyNext]_vars

(***************************************************************************)
(* Quiet-segment detection (get_noise_window) and estimate_noise_spectrum. *)
(*                                                                         *)
(* RMS values, their mean and their standard deviation are held in         *)
(* thousandths of a sample unit.  An f32 quotient is [class, value]: the   *)
(* class is "finite", "neg_inf", "pos_inf" or "nan", the value (of a       *)
(* finite quotient) is in thousandths.                                     *)
(***************************************************************************)
MaxQuietLen == 5     \* longest recording given to estimate_noise_spectrum
MaxSample   == 2     \* largest sample of such a recording

QuietRates == {5, 10}

\* (0.2 * sample_rate) as usize
start_idx(sample_rate) == (2 * sample_rate) \div 10

\* (1.5 * sample_rate).min(samples.len() as f32) as usize
end_idx(sample_rate, len) == Min((15 * sample_rate) \div 10, len)

RECURSIVE SqrtBetween(_, _, _)
SqrtBetween(x, lo, hi) ==
    IF lo >= hi THEN lo
    ELSE LET mid == (lo + hi + 1) \div 2
         IN  IF mid * mid <= x THEN SqrtBetween(x, mid, hi)
             ELSE SqrtBetween(x, lo, mid - 1)

\* f32::sqrt, rounded down to a whole unit (46340 is the largest root
\* whose square is a 32-bit integer)
Sqrt(x) == SqrtBetween(x, 0, Min(x, 46340))

\* util::rms
rms(signal) ==
    IF signal = << >> THEN None
    ELSE LET sum_squares == Sum([i \in 1..Len(signal) |-> signal[i] * signal[i]])
         IN  Some(Sqrt((sum_squares * Milli * Milli) \div Len(signal)))

\* util::mean
mean(data) ==
    IF Len(data) > 0 THEN Some(Sum(data) \div Len(data)) ELSE None

\* util::mean_std_deviation
mean_std_deviation(data) ==
    IF mean(data) = None THEN None
    ELSE LET mean_value == Unwrap(mean(data))
             variance   == Sum([i \in 1..Len(data) |->
                                   (mean_value - data[i]) * (mean_value - data[i])])
                               \div Len(data)
         IN  Some([mean |-> mean_value, std_dev |-> Sqrt(variance)])

\* slice::chunks: consecutive chunks of chunk_size elements, the last one
\* shorter when the length is not a multiple of chunk_size.
RECURSIVE chunks(_, _)
chunks(slice, chunk_size) ==
    IF slice = << >> THEN << >>
    ELSE IF Len(slice) <= chunk_size THEN <<slice>>
    ELSE <<SubSeq(slice, 1, chunk_size)>>
             \o chunks(SubSeq(slice, chunk_size + 1, Len(slice)), chunk_size)

\* f32 division a / b
f32_div(a, b) ==
    CASE b # 0          -> [class |-> "finite",  value |-> TruncDiv(a * Milli, b)]
      [] b = 0 /\ a < 0 -> [class |-> "neg_inf", value |-> 0]
      [] b = 0 /\ a > 0 -> [class |-> "pos_inf", value |-> 0]
      [] OTHER          -> [class |-> "nan",     value |-> 0]

\* The acceptance test with the bound included.
zscore_accepts_or_equal(zscore) ==
    \/ zscore.class = "neg_inf"
    \/ zscore.class = "finite" /\ zscore.value <= -Milli

\* noise_window_zscore < -1.0
zscore_accepts(zscore) ==
    \/ zscore.class = "neg_inf"
    \/ zscore.class = "finite" /\ zscore.value < -Milli

\* A guard that returns only when the two indices meet.
candidate_is_empty_only_equal(start, end) == start = end

\* start_idx >= end_idx
candidate_is_empty(start, end) == start >= end

\* What get_noise_window returns: the window, if one was accepted, whether
\* the call panicked, and the statistics it computed (None before them).
NoiseWindowResult(window, panicked, stats) ==
    [window |-> window, panicked |-> panicked, stats |-> stats]

\* get_noise_window
get_noise_window(samples, sample_rate) ==
    LET start == start_idx(sample_rate)
        end   == end_idx(sample_rate, Len(samples))
    IN  IF candidate_is_empty(start, end)
        THEN NoiseWindowResult(None, FALSE, None)
        ELSE IF start > end \/ end > Len(samples)
        THEN NoiseWindowResult(None, TRUE, None)        \* slice index out of order
        ELSE LET noise_window     == Slice(samples, start, end - start)
                 window_size      == Len(noise_window)
             IN  IF window_size = 0
                 THEN NoiseWindowResult(None, FALSE, None)
                 ELSE LET all_chunks       == chunks(samples, window_size)
                          all_windows_rms  == [k \in 1..Len(all_chunks) |->
                                                  Unwrap(rms(all_chunks[k]))]
                          msd              == Unwrap(mean_std_deviation(all_windows_rms))
                          noise_window_rms == Unwrap(rms(noise_window))
                          zscore           == f32_div(noise_window_rms - msd.mean, msd.std_dev)
                          stats == [noise_window     |-> noise_window,
                                    all_windows_rms  |-> all_windows_rms,
                                    rms_mean         |-> msd.mean,
                                    rms_stddev       |-> msd.std_dev,
                                    noise_window_rms |-> noise_window_rms,
                                    zscore           |-> zscore]
                      IN  IF zscore_accepts(zscore)
                          THEN NoiseWindowResult(Some(noise_window), FALSE, Some(stats))
                          ELSE NoiseWindowResult(None, FALSE, Some(stats))

\* What the two estimating functions return, with what get_noise_window did.
NoiseSpectrumResult(spectrum, found) ==
    [spectrum |-> spectrum, window |-> found.window,
     panicked |-> found.panicked, stats |-> found.stats]

\* _estimate_noise_spectrum
estimate_noise_spectrum_of_samples(samples, sample_rate) ==
    LET found == get_noise_window(samples, sample_rate)
    IN  IF found.window = None
        THEN NoiseSpectrumResult(None, found)
        ELSE NoiseSpectrumResult(Some(from_waveform(Unwrap(found.window))), found)

\* estimate_noise_spectrum
estimate_noise_spectrum(mono_audio) ==
    IF mono_audio.samples = << >>
    THEN NoiseSpectrumResult(None, NoiseWindowResult(None, FALSE, None))
    ELSE estimate_noise_spectrum_of_samples(mono_audio.samples, mono_audio.sample_rate)

\* The lengths of the recordings at a sample rate: those whose candidate
\* window, if there is one, has a length the transform is computed on.
QuietLens(sample_rate) ==
    {n \in 0..MaxQuietLen :
        \/ start_idx(sample_rate) >= end_idx(sample_rate, n)
        \/ end_idx(sample_rate, n) - start_idx(sample_rate) \in FftLens}

Recordings ==
    UNION {{MonoAudio(samples, rate) :
               samples \in UNION {[1..n -> 0..MaxSample] : n \in QuietLens(rate)}} :
           rate \in QuietRates}

QuietInit ==
    /\ \E recording \in Recordings :
          quiet = [audio |-> recording, op |-> "none",
                   result |-> NoiseSpectrumResult(None, NoiseWindowResult(None, FALSE, None))]
    \* the other components are not used
    /\ api = "strided"
    /\ audio = MonoAudio(<< >>, 44100)
    /\ tracker = [window_size |-> 1, step_size |-> 1, detector |-> [window_size |-> None]]
    /\ position = 0
    /\ windows = << >>
    /\ calls = << >>
    /\ pitches = << >>
    /\ review = None
    /\ mic = None
    /\ processor = None
    /\ capture = None
    /\ recorder = None
    /\ pc = "returned"
    /\ gate = None
    /\ last = None
    /\ yin = None
    /\ metrics = None
    /\ spect = None

\* estimate_noise_spectrum(&audio)
EstimateNoiseSpectrum ==
    /\ quiet' = [quiet EXCEPT !.op = "estimate_noise_spectrum",
                              !.result = estimate_noise_spectrum(quiet.audio)]
    /\ UNCHANGED <<trackVars, gateVars, moreVars, yin, metrics, spect>>

\* _estimate_noise_spectrum(&audio.samples, audio.sample_rate as f32)
EstimateNoiseSpectrumOfSamples ==
    /\ quiet' = [quiet EXCEPT !.op = "_estimate_noise_spectrum",
                              !.result = estimate_noise_spectrum_of_samples(
                                             quiet.audio.samples, quiet.audio.sample_rate)]
    /\ UNCHANGED <<trackVars, gateVars, moreVars, yin, metrics, spect>>

QuietNext == EstimateNoiseSpectrum \/ EstimateNoiseSpectrumOfSamples

SpecQuiet == QuietInit /\ [][QuietNext]_vars

(***************************************************************************)
(* Spectrum on its own: from_waveform, magnitudes and to_time_domain.      *)
(***************************************************************************)
\* The waveforms transformed: every sequence of samples of a length the
\* transform is computed on, and a few waveforms at and above full scale.
\* In this component a unit is 2^-17 (about 0.0000076), so that 1.0 is
\* 131072 units and 1024.0 is 134217728 units.
SampleOne == 131072

SpectrumWaveforms ==
    UNION {[1..n -> (-MaxSample)..MaxSample] : n \in FftLens}
    \cup {<<SampleOne, 0, -SampleOne, 0>>, <<SampleOne, -SampleOne>>,
          <<1024 * SampleOne>>, <<1024 * SampleOne, 3>>, <<3, 1024 * SampleOne>>}

\* The magnitudes of all the bins.
Spectrum_magnitudes_all_bins(self) ==
    [panicked |-> FALSE,
     values   |-> [i \in 1..Len(self.complex) |-> Norm(self.complex[i])]]

\* Spectrum::magnitudes: the norms of self.complex[..self.n / 2]; taking
\* the slice panics when it is longer than the vector.
Spectrum_magnitudes(self) ==
    IF self.n \div 2 > Len(self.complex)
    THEN [panicked |-> TRUE, values |-> << >>]
    ELSE [panicked |-> FALSE,
          values   |-> [i \in 1..(self.n \div 2) |-> Norm(self.complex[i])]]

\* Whether to_time_domain evaluates c.re / 0.0: once per bin when n = 0.
to_time_domain_divides_by_zero(spectrum) ==
    spectrum.n = 0 /\ Len(spectrum.complex) > 0

SpectrumInit ==
    /\ \E waveform \in SpectrumWaveforms :
          spect = [waveform |-> waveform, spectrum |-> None,
                   magnitudes |-> None, time_domain |-> None]
    \* the other components are not used
    /\ api = "strided"
    /\ audio = MonoAudio(<< >>, 44100)
    /\ tracker = [window_size |-> 1, step_size |-> 1, detector |-> [window_size |-> None]]
    /\ position = 0
    /\ windows = << >>
    /\ calls = << >>
    /\ pitches = << >>
    /\ review = None
    /\ mic = None
    /\ processor = None
    /\ capture = None
    /\ recorder = None
    /\ pc = "returned"
    /\ gate = None
    /\ last = None
    /\ yin = None
    /\ metrics = None
    /\ quiet = None

\* let spectrum = Spectrum::from_waveform(&waveform)
FromWaveform ==
    /\ spect.spectrum = None
    /\ spect' = [spect EXCEPT !.spectrum = Some(from_waveform(spect.waveform))]
    /\ UNCHANGED <<trackVars, gateVars, moreVars, yin, metrics, quiet>>

\* spectrum.magnitudes()
Magnitudes ==
    /\ spect.spectrum # None
    /\ spect' = [spect EXCEPT !.magnitudes = Some(Spectrum_magnitudes(Unwrap(spect.spectrum)))]
    /\ UNCHANGED <<trackVars, gateVars, moreVars, yin, metrics, quiet>>

\* spectrum.to_time_domain()
ToTimeDomain ==
    /\ spect.spectrum # None
    /\ spect' = [spect EXCEPT !.time_domain =
                     Some([divided_by_zero |-> to_time_domain_divides_by_zero(
                                                   Unwrap(spect.spectrum)),
                           values |-> to_time_domain(Unwrap(spect.spectrum))])]
    /\ UNCHANGED <<trackVars, gateVars, moreVars, yin, metrics, quiet>>

SpectrumNext == FromWaveform \/ Magnitudes \/ ToTimeDomain

SpecSpectrum == SpectrumInit /\ [][SpectrumNext]_vars

(***************************************************************************)
(* ReviewItem (SM-2).  The easiness factor is held in hundredths, the      *)
(* interval in hundredths of a day, next_review in seconds after the       *)
(* SystemTime::now() of the call.                                          *)
(***************************************************************************)
MaxReviews == 5      \* calls of record_review on one item

PerformanceRatings == {"Blackout", "Incorrect", "Difficult", "Hesitant", "Good", "Perfect"}

\* PerformanceRating::quality
quality(performance) ==
    CASE performance = "Blackout"  -> 0
      [] performance = "Incorrect" -> 1
      [] performance = "Difficult" -> 2
      [] performance = "Hesitant"  -> 3
      [] performance = "Good"      -> 4
      [] performance = "Perfect"   -> 5

\* ReviewItem::new
ReviewItem_new ==
    [easiness |-> 250, consecutive_correct |-> 0, interval |-> 0,
     next_review |-> 0, total_reviews |-> 0]

\* The easiness after a review without its lower bound.
update_easiness_unbounded(easiness, q) ==
    easiness + (10 - (5 - q) * (8 + (5 - q) * 2))

\* (easiness + (0.1 - (5 - q) * (0.08 + (5 - q) * 0.02))).max(1.3)
update_easiness(easiness, q) ==
    Max(easiness + (10 - (5 - q) * (8 + (5 - q) * 2)), 130)

\* A review whose interval is multiplied by the easiness of before the call.
record_review_old_easiness(self, performance) ==
    LET q        == quality(performance)
        easiness == update_easiness(self.easiness, q)
        correct  == IF q < 3 THEN 0 ELSE self.consecutive_correct + 1
        interval == IF q < 3 THEN 0
                    ELSE CASE correct = 1 -> 100
                           [] correct = 2 -> 600
                           [] OTHER       -> (self.interval * self.easiness) \div 100
    IN  [easiness |-> easiness, consecutive_correct |-> correct, interval |-> interval,
         next_review |-> interval * 864, total_reviews |-> self.total_reviews + 1]

\* ReviewItem::record_review.  The interval of the bounds, in seconds, is
\* far inside what SystemTime::now() + Duration can hold.
record_review(self, performance) ==
    LET q        == quality(performance)
        easiness == update_easiness(self.easiness, q)
        correct  == IF q < 3 THEN 0 ELSE self.consecutive_correct + 1
        interval == IF q < 3 THEN 0
                    ELSE CASE correct = 1 -> 100
                           [] correct = 2 -> 600
                           [] OTHER       -> (self.interval * easiness) \div 100
    IN  [easiness |-> easiness, consecutive_correct |-> correct, interval |-> interval,
         next_review |-> interval * 864, total_reviews |-> self.total_reviews + 1]

ReviewInit ==
    /\ review = [item |-> ReviewItem_new, before |-> ReviewItem_new, rating |-> None]
    \* the other components are not used
    /\ api = "strided"
    /\ audio = MonoAudio(<< >>, 44100)
    /\ tracker = [window_size |-> 1, step_size |-> 1, detector |-> [window_size |-> None]]
    /\ position = 0
    /\ windows = << >>
    /\ calls = << >>
    /\ pitches = << >>
    /\ pc = "returned"
    /\ gate = None
    /\ last = None
    /\ yin = None
    /\ metrics = None
    /\ quiet = None
    /\ spect = None
    /\ mic = None
    /\ processor = None
    /\ capture = None
    /\ recorder = None

\* item.record_review(performance)
RecordReview ==
    /\ review.item.total_reviews < MaxReviews
    /\ \E performance \in PerformanceRatings :
          review' = [item   |-> record_review(review.item, performance),
                     before |-> review.item,
                     rating |-> Some(performance)]
    /\ UNCHANGED <<coreVars, mic, processor, capture, recorder>>

ReviewNext == RecordReview

SpecReview == ReviewInit /\ [][ReviewNext]_vars

(***************************************************************************)
(* MicrophoneRecorder.  A cpal stream is [playing]; whether a stream runs  *)
(* as soon as it is built depends on the platform.                         *)
(***************************************************************************)
MaxRecorded == 3      \* samples a recorder collects

\* MicrophoneRecorder::new, on a platform whose streams start by themselves
\* (autoplay) or not
MicrophoneRecorder_new(autoplay) ==
    [samples |-> << >>, sample_rate |-> 44100, stream |-> Some([playing |-> autoplay])]

\* MicrophoneRecorder::start; play_ok is whether stream.play() succeeds
MicrophoneRecorder_start(self, play_ok) ==
    IF self.stream # None
    THEN IF play_ok
         THEN [self |-> [self EXCEPT !.stream = Some([playing |-> TRUE])], result |-> "Ok"]
         ELSE [self |-> self, result |-> "Err(StreamError)"]
    ELSE [self |-> self, result |-> "Ok"]

\* MicrophoneRecorder::pause
MicrophoneRecorder_pause(self, pause_ok) ==
    IF self.stream # None
    THEN IF pause_ok
         THEN [self |-> [self EXCEPT !.stream = Some([playing |-> FALSE])], result |-> "Ok"]
         ELSE [self |-> self, result |-> "Err(StreamError)"]
    ELSE [self |-> self, result |-> "Ok"]

\* MicrophoneRecorder::stop: the stream is taken and dropped, the recorder
\* is consumed
MicrophoneRecorder_stop(self) ==
    [self   |-> [self EXCEPT !.stream = None],
     result |-> IF self.samples = << >> THEN "Err(RecordError)" ELSE "Ok"]

\* MicrophoneRecorder::is_recording
MicrophoneRecorder_is_recording(self) == self.stream # None

\* The data callback of build_input_stream_f32 with one channel: every
\* frame is pushed to the shared samples.
input_callback_f32(samples, data) == samples \o data

MicInit ==
    /\ \E autoplay \in BOOLEAN :
          mic = [self |-> MicrophoneRecorder_new(autoplay), alive |-> TRUE,
                 started |-> FALSE, op |-> "new", result |-> "Ok"]
    \* the other components are not used
    /\ api = "strided"
    /\ audio = MonoAudio(<< >>, 44100)
    /\ tracker = [window_size |-> 1, step_size |-> 1, detector |-> [window_size |-> None]]
    /\ position = 0
    /\ windows = << >>
    /\ calls = << >>
    /\ pitches = << >>
    /\ pc = "returned"
    /\ gate = None
    /\ last = None
    /\ yin = None
    /\ metrics = None
    /\ quiet = None
    /\ spect = None
    /\ review = None
    /\ processor = None
    /\ capture = None
    /\ recorder = None

\* recorder.start(); `started` records that a call of start has succeeded
MicStart ==
    /\ mic.alive
    /\ \E play_ok \in BOOLEAN :
          LET r == MicrophoneRecorder_start(mic.self, play_ok)
          IN  mic' = [mic EXCEPT !.self = r.self, !.op = "start", !.result = r.result,
                                 !.started = mic.started \/ r.result = "Ok"]
    /\ UNCHANGED <<coreVars, review, processor, capture, recorder>>

\* recorder.pause()
MicPause ==
    /\ mic.alive
    /\ \E pause_ok \in BOOLEAN :
          LET r == MicrophoneRecorder_pause(mic.self, pause_ok)
          IN  mic' = [mic EXCEPT !.self = r.self, !.op = "pause", !.result = r.result]
    /\ UNCHANGED <<coreVars, review, processor, capture, recorder>>

\* The audio thread delivers data while the stream plays.
MicData ==
    /\ mic.alive
    /\ mic.self.stream # None
    /\ Unwrap(mic.self.stream).playing
    /\ Len(mic.self.samples) < MaxRecorded
    /\ \E x \in {1, 2} :
          mic' = [mic EXCEPT !.self.samples = input_callback_f32(@, <<x>>), !.op = "data"]
    /\ UNCHANGED <<coreVars, review, processor, capture, recorder>>

\* recorder.stop()
MicStop ==
    /\ mic.alive
    /\ LET r == MicrophoneRecorder_stop(mic.self)
       IN  mic' = [mic EXCEPT !.self = r.self, !.op = "stop", !.result = r.result,
                              !.alive = FALSE]
    /\ UNCHANGED <<coreVars, review, processor, capture, recorder>>

MicNext == MicStart \/ MicPause \/ MicData \/ MicStop

SpecMic == MicInit /\ [][MicNext]_vars

(***************************************************************************)
(* PitchProcessor (gui).  WINDOW_SIZE is 2048 in the source and scaled     *)
(* down here; a chunk is a sequence of samples.                            *)
(***************************************************************************)
WINDOW_SIZE == 2      \* the detector's window, scaled down
MaxChunks == 2        \* chunks given to one processor

Chunks == UNION {[1..n -> {0, 1}] : n \in 0..(WINDOW_SIZE + 2)}

\* PitchProcessor::new: ExternalYinDetector::new(0.1, 0.7, WINDOW_SIZE, HOP_SIZE)
PitchProcessor_new == [detector |-> [window_size |-> WINDOW_SIZE]]

\* bandpass_vocal_range: one filtered sample per input sample, each a
\* function of the samples up to it (the filter is causal and stateful)
bandpass_vocal_range(samples) ==
    [i \in 1..Len(samples) |-> <<"filtered", SubSeq(samples, 1, i)>>]

\* clean_audio_for_pitch(&audio, None, None): without a noise spectrum the
\* band-pass filter is applied
clean_audio_for_pitch(samples) == bandpass_vocal_range(samples)

\* ExternalYinDetector::get_mono_pitch: YINDetector::get_pitch asserts that
\* the signal has the length of its window; `found` is whether the
\* estimator finds a pitch
ExternalYinDetector_get_mono_pitch(self, signal, found) ==
    IF Len(signal) # self.window_size THEN "panic"
    ELSE IF found THEN "Some" ELSE "None"

\* the length check at the head of process_audio_chunk
chunk_is_processed(samples) == ~(Len(samples) < WINDOW_SIZE)

\* PitchProcessor::process_audio_chunk; `invoked` is the signal the
\* detector was called with, if it was called
process_audio_chunk(self, samples, enable_bandpass, enable_spectral_gating, found) ==
    IF ~chunk_is_processed(samples)
    THEN [invoked |-> None, outcome |-> "None"]
    ELSE LET processed_audio ==
                 IF enable_bandpass \/ enable_spectral_gating
                 THEN clean_audio_for_pitch(samples)
                 ELSE samples
         IN  [invoked |-> Some(processed_audio),
              outcome |-> ExternalYinDetector_get_mono_pitch(self.detector,
                                                             processed_audio, found)]

ProcessorInit ==
    /\ processor = [self |-> PitchProcessor_new, chunks |-> 0, samples |-> << >>,
                    invoked |-> None, outcome |-> "None"]
    \* the other components are not used
    /\ api = "strided"
    /\ audio = MonoAudio(<< >>, 44100)
    /\ tracker = [window_size |-> 1, step_size |-> 1, detector |-> [window_size |-> None]]
    /\ position = 0
    /\ windows = << >>
    /\ calls = << >>
    /\ pitches = << >>
    /\ pc = "returned"
    /\ gate = None
    /\ last = None
    /\ yin = None
    /\ metrics = None
    /\ quiet = None
    /\ spect = None
    /\ review = None
    /\ mic = None
    /\ capture = None
    /\ recorder = None

\* processor.process_audio_chunk(samples, sample_rate, bandpass, gating);
\* after a panic the processor is not called again
ProcessAudioChunk ==
    /\ processor.outcome # "panic"
    /\ processor.chunks < MaxChunks
    /\ \E samples \in Chunks, enable_bandpass \in BOOLEAN,
          enable_spectral_gating \in BOOLEAN, found \in BOOLEAN :
          LET r == process_audio_chunk(processor.self, samples, enable_bandpass,
                                       enable_spectral_gating, found)
          IN  processor' = [processor EXCEPT !.chunks = @ + 1, !.samples = samples,
                                             !.invoked = r.invoked,
                                             !.outcome = r.outcome]
    /\ UNCHANGED <<coreVars, review, mic, capture, recorder>>

ProcessorNext == ProcessAudioChunk

SpecProcessor == ProcessorInit /\ [][ProcessorNext]_vars

(***************************************************************************)
(* The input callback of AudioRecorder::build_stream (live capture).       *)
(* The callback holds the lock of the shared buffer from the extension of  *)
(* the buffer to its return; its loop is taken one iteration at a time     *)
(* (capture.pc), since it does not end when window_size = 0.               *)
(***************************************************************************)
MaxDelivered == 5     \* mono samples delivered to one stream
MaxData == 3          \* raw samples of one callback
MaxWindowSize == 2    \* window_size given to start()
MaxBlocks == 5        \* blocks handed to pitch processing (cuts the endless loop)

\* the raw samples are even, so that the mean of a stereo frame is exact
DataChunks == UNION {[1..n -> {0, 2}] : n \in 0..MaxData}
CaptureWindowSizes == 0..MaxWindowSize
ChannelCounts == {1, 2}

\* data.chunks_exact(channels): the frames of `channels` samples, a shorter
\* remainder is left out
chunks_exact(data, channels) ==
    [k \in 1..(Len(data) \div channels) |->
        SubSeq(data, (k - 1) * channels + 1, k * channels)]

\* the mono mix of the callback: the samples themselves for one channel,
\* the mean of every frame otherwise
mono_samples(data, channels) ==
    IF channels = 1
    THEN data
    ELSE LET frames == chunks_exact(data, channels)
         IN  [k \in 1..Len(frames) |-> Sum(frames[k]) \div channels]

\* the condition of the callback's loop
buffer_has_more_than_block(buffer, window_size) == Len(buffer) > window_size

buffer_has_block(buffer, window_size) == Len(buffer) >= window_size

\* buffer.drain(..window_size).collect(): the block and what stays buffered
drain_overlapping(buffer, window_size) ==
    [block |-> SubSeq(buffer, 1, window_size),
     rest  |-> SubSeq(buffer, Max(window_size, 1), Len(buffer))]

drain(buffer, window_size) ==
    [block |-> SubSeq(buffer, 1, window_size),
     rest  |-> SubSeq(buffer, window_size + 1, Len(buffer))]

\* The state of a stream just built: an empty buffer, and a WAV writer
\* when saving was asked for and the file could be created.
CaptureInit ==
    /\ \E window_size \in CaptureWindowSizes, hop_size \in {0, 1, 3},
          channels \in ChannelCounts, writer \in BOOLEAN :
          capture = [window_size |-> window_size, hop_size |-> hop_size,
                     channels |-> channels, wav_writer |-> writer,
                     audio_buffer |-> << >>, written |-> << >>,
                     delivered |-> << >>, blocks |-> << >>, sent |-> 0,
                     pc |-> "idle", entry |-> 0, handed |-> 0, entered |-> FALSE]
    \* the other components are not used
    /\ api = "strided"
    /\ audio = MonoAudio(<< >>, 44100)
    /\ tracker = [window_size |-> 1, step_size |-> 1, detector |-> [window_size |-> None]]
    /\ position = 0
    /\ windows = << >>
    /\ calls = << >>
    /\ pitches = << >>
    /\ pc = "returned"
    /\ gate = None
    /\ last = None
    /\ yin = None
    /\ metrics = None
    /\ quiet = None
    /\ spect = None
    /\ review = None
    /\ mic = None
    /\ processor = None
    /\ recorder = None

\* The callback is entered with `data`: mix to mono, write to the file,
\* lock the buffer and extend it.  delivered, entry, handed and entered
\* record the mono samples so far, the buffer's length before the loop,
\* the blocks of this callback and that a callback has run.
InputCallback ==
    /\ capture.pc = "idle"
    /\ \E data \in DataChunks :
          LET mono == mono_samples(data, capture.channels)
          IN  /\ Len(capture.delivered) + Len(mono) <= MaxDelivered
              /\ capture' = [capture EXCEPT
                    !.written = IF capture.wav_writer THEN @ \o mono ELSE @,
                    !.audio_buffer = @ \o mono,
                    !.delivered = @ \o mono,
                    !.entry = Len(capture.audio_buffer) + Len(mono),
                    !.handed = 0,
                    !.entered = TRUE,
                    !.pc = "draining"]
    /\ UNCHANGED <<coreVars, review, mic, processor, recorder>>

\* One iteration of the loop: a block is drained and handed to
\* PitchProcessor::process_audio_chunk; a result, if any, is sent.
ProcessBlock ==
    /\ capture.pc = "draining"
    /\ buffer_has_block(capture.audio_buffer, capture.window_size)
    /\ Len(capture.blocks) < MaxBlocks
    /\ \E found \in BOOLEAN :
          LET d == drain(capture.audio_buffer, capture.window_size)
          IN  capture' = [capture EXCEPT
                !.audio_buffer = d.rest,
                !.blocks = Append(@, d.block),
                !.handed = @ + 1,
                !.sent = IF found THEN @ + 1 ELSE @]
    /\ UNCHANGED <<coreVars, review, mic, processor, recorder>>

\* The loop ends, the lock is released and the callback returns.
CallbackReturn ==
    /\ capture.pc = "draining"
    /\ ~buffer_has_block(capture.audio_buffer, capture.window_size)
    /\ capture' = [capture EXCEPT !.pc = "idle"]
    /\ UNCHANGED <<coreVars, review, mic, processor, recorder>>

CaptureNext == InputCallback \/ ProcessBlock \/ CallbackReturn

SpecCapture == CaptureInit /\ [][CaptureNext]_vars

(***************************************************************************)
(* AudioRecorder (gui): start, stop and drop.  A stream is a record with   *)
(* the number it was built as and the parameters of its callback;          *)
(* recorder.live is the set of streams that exist.                         *)
(***************************************************************************)
MaxStreams == 3       \* streams built by one recorder

\* What the host answers to a start(): a stream that plays, or one of the
\* failures of start().
HostAnswers == {"Ok", "Err(No input device available)",
                "Err(Failed to get default input config)",
                "Err(Unsupported sample format)",
                "Err(Failed to build input stream)",
                "Err(Failed to play stream)"}

\* the answers with which build_stream has returned a stream
StreamBuilt == {"Ok", "Err(Failed to play stream)"}

\* AudioRecorder::new
AudioRecorder_new == [stream |-> None]

\* a start() that takes every call
start_never_rejects(self) == FALSE

\* the check at the head of start()
start_rejects(self) == self.stream # None

\* AudioRecorder::start: the recorder, the result, and the stream that was
\* built, if one was; `stream` is the stream build_stream returns
AudioRecorder_start(self, stream, answer) ==
    IF start_rejects(self)
    THEN [self |-> self, result |-> "Err(Already recording)", built |-> None]
    ELSE IF answer = "Ok"
    THEN [self |-> [self EXCEPT !.stream = Some(stream)], result |-> "Ok",
          built |-> Some(stream)]
    ELSE [self |-> self, result |-> answer,
          built |-> IF answer \in StreamBuilt THEN Some(stream) ELSE None]

\* AudioRecorder::stop: the stream is taken, paused and dropped
AudioRecorder_stop(self) == [self |-> [self EXCEPT !.stream = None], result |-> "Ok"]

\* the streams that exist once a call has left `self` with its stream
LiveStreams(self) == IF self.stream = None THEN {} ELSE {Unwrap(self.stream)}

RecorderInit ==
    /\ recorder = [self |-> AudioRecorder_new, alive |-> TRUE, built |-> 0,
                   live |-> {}, op |-> "new", result |-> "Ok",
                   before |-> AudioRecorder_new]
    \* the other components are not used
    /\ api = "strided"
    /\ audio = MonoAudio(<< >>, 44100)
    /\ tracker = [window_size |-> 1, step_size |-> 1, detector |-> [window_size |-> None]]
    /\ position = 0
    /\ windows = << >>
    /\ calls = << >>
    /\ pitches = << >>
    /\ pc = "returned"
    /\ gate = None
    /\ last = None
    /\ yin = None
    /\ metrics = None
    /\ quiet = None
    /\ spect = None
    /\ review = None
    /\ mic = None
    /\ processor = None
    /\ capture = None

\* recorder.start(..); a stream that was built and is not kept by the
\* recorder is dropped when start returns, and so is a stream the
\* assignment to self.stream replaces
RecorderStart ==
    /\ recorder.alive
    /\ recorder.built < MaxStreams
    /\ \E answer \in HostAnswers, window_size \in CaptureWindowSizes,
          enable_bandpass \in BOOLEAN, save_to_file \in BOOLEAN :
          LET stream == [id |-> recorder.built + 1, window_size |-> window_size,
                         enable_bandpass |-> enable_bandpass,
                         save_to_file |-> save_to_file]
              r == AudioRecorder_start(recorder.self, stream, answer)
          IN  recorder' = [recorder EXCEPT
                !.self = r.self, !.op = "start", !.result = r.result,
                !.before = recorder.self,
                !.built = IF r.built # None THEN @ + 1 ELSE @,
                !.live = LiveStreams(r.self)]
    /\ UNCHANGED <<coreVars, review, mic, processor, capture>>

\* recorder.stop()
RecorderStop ==
    /\ recorder.alive
    /\ LET r == AudioRecorder_stop(recorder.self)
       IN  recorder' = [recorder EXCEPT
             !.self = r.self, !.op = "stop", !.result = r.result,
             !.before = recorder.self, !.live = LiveStreams(r.self)]
    /\ UNCHANGED <<coreVars, review, mic, processor, capture>>

\* the recorder is dropped: its stream, if any, is cleaned up
RecorderDrop ==
    /\ recorder.alive
    /\ recorder' = [recorder EXCEPT
          !.self.stream = None, !.op = "drop", !.result = "Ok",
          !.before = recorder.self, !.live = {}, !.alive = FALSE]
    /\ UNCHANGED <<coreVars, review, mic, processor, capture>>

RecorderNext == RecorderStart \/ RecorderStop \/ RecorderDrop

SpecRecorder == RecorderInit /\ [][RecorderNext]_vars

(***************************************************************************)
(* Claims about the windowing and the pitch tracker (under SpecTrack).     *)
(***************************************************************************)

\* The number of whole windows of size w at step s >= 1 in a buffer of length n.
WindowCount(n, w, s) == IF n >= w THEN (n - w) \div s + 1 ELSE 0

\* The value the tracker records for a detector result.
Recorded(pitch) == IF pitch = None THEN 0 ELSE Unwrap(pitch).frequency

\* C1: with positive window_size and step_size, the k-th segment yielded
\* (k from 0) is the contiguous slice buffer[k*step_size .. k*step_size +
\* window_size): window_size samples in buffer order, with the source's
\* sample rate, and it never extends past the end of the buffer.
C1_SegmentIsSlice ==
    tracker.step_size >= 1 =>
        \A k \in 0..(Len(windows) - 1) :
            LET seg == windows[k + 1]
                off == k * tracker.step_size
            IN  /\ Len(seg.samples) = tracker.window_size
                /\ off + tracker.window_size <= Len(audio.samples)
                /\ \A j \in 1..tracker.window_size :
                       seg.samples[j] = audio.samples[off + j]
                /\ seg.sample_rate = audio.sample_rate

\* C1 witness: sliding_windows has yielded overlapping segments and ended
\* although samples remain at the next offset: they do not fill a window.
C1_Witness ==
    /\ api = "pitches"
    /\ pc = "returned"
    /\ Len(windows) >= 2
    /\ tracker.step_size >= 1
    /\ tracker.step_size < tracker.window_size
    /\ Len(windows) * tracker.step_size < Len(audio.samples)

\* C2: a finished iteration with step_size >= 1 has yielded exactly
\* floor((L - w) / s) + 1 segments when L >= w and none when L < w, and
\* pitch_track and PitchTracker::pitches return that many values.
C2_SegmentCount ==
    (pc = "returned" /\ tracker.step_size >= 1) =>
        /\ Len(windows) = WindowCount(Len(audio.samples), tracker.window_size,
                                      tracker.step_size)
        /\ api \in {"pitches", "pitch_track"} =>
               Len(pitches) = WindowCount(Len(audio.samples), tracker.window_size,
                                          tracker.step_size)

\* C2 witness: pitch_track has returned several values from a buffer that
\* the windows fit exactly.
C2_Witness ==
    /\ api = "pitch_track"
    /\ pc = "returned"
    /\ Len(pitches) >= 2
    /\ (Len(pitches) - 1) * tracker.step_size + tracker.window_size = Len(audio.samples)

\* C3 as claimed: whatever detector the tracker was built from, every segment
\* passed to the detector has the length the detector was configured with.
C3_Original ==
    (api = "pitches" /\ tracker.step_size >= 1) =>
        \A i \in 1..Len(calls) :
            tracker.detector.window_size # None =>
                Len(calls[i].segment.samples) = Unwrap(tracker.detector.window_size)

\* C3 amended: every segment PitchTracker::pitches passes to the detector has
\* exactly the tracker's window_size samples, so the detector's invalid-length
\* fault does not occur when the detector was configured with that same
\* window size (or accepts any length).
C3_SegmentHasTrackerWindow ==
    api = "pitches" =>
        /\ \A i \in 1..Len(calls) :
               Len(calls[i].segment.samples) = tracker.window_size
        /\ tracker.detector.window_size \in {None, Some(tracker.window_size)} =>
               /\ pc # "panicked"
               /\ \A i \in 1..Len(calls) : ~ calls[i].result.panicked

\* C3 witness: a tracker whose detector was configured with the tracker's
\* window size has estimated several segments of a buffer with a partial tail.
C3_Witness ==
    /\ api = "pitches"
    /\ tracker.detector.window_size = Some(tracker.window_size)
    /\ pc = "returned"
    /\ Len(calls) >= 2
    /\ tracker.step_size >= 1
    /\ (Len(calls) - 1) * tracker.step_size + tracker.window_size < Len(audio.samples)

\* C4: PitchTracker::pitches calls the detector once per segment, in segment
\* order, and its i-th value is the value recorded for the detector's result
\* on the i-th segment: no segment is skipped or reported twice.
C4_OneValuePerSegment ==
    (api = "pitches" /\ tracker.step_size >= 1) =>
        /\ Len(calls) = Len(windows)
        /\ \A i \in 1..Len(calls) :
               /\ calls[i].segment = windows[i]
               /\ calls[i].segment.samples =
                      [j \in 1..tracker.window_size |->
                           audio.samples[(i - 1) * tracker.step_size + j]]
        /\ pc # "panicked" =>
               /\ Len(pitches) = Len(calls)
               /\ \A i \in 1..Len(pitches) : pitches[i] = Recorded(calls[i].result.pitch)
        /\ pc = "returned" =>
               Len(pitches) = WindowCount(Len(audio.samples), tracker.window_size,
                                          tracker.step_size)

\* C4 witness: pitches has returned three values, the detector having given
\* different estimates on different segments.
C4_Witness ==
    /\ api = "pitches"
    /\ pc = "returned"
    /\ Len(pitches) = 3
    /\ pitches[1] # pitches[2]
    /\ pitches[1] # 0
    /\ pitches[2] # 0

\* C5: a segment for which the detector returns None is recorded as 0.0 and
\* the iteration goes on: the values after it are recorded as usual, and the
\* returned sequence has one value per window whatever the detector returned.
C5_NoneIsZeroAndContinues ==
    (api = "pitches" /\ pc # "panicked") =>
        /\ \A i \in 1..Len(calls) :
               /\ i <= Len(pitches)
               /\ calls[i].result.pitch = None => pitches[i] = 0
               /\ calls[i].result.pitch # None =>
                      pitches[i] = Unwrap(calls[i].result.pitch).frequency
        /\ (pc = "returned" /\ tracker.step_size >= 1) =>
               Len(pitches) = WindowCount(Len(audio.samples), tracker.window_size,
                                          tracker.step_size)

\* C5 witness: the detector returned None on the first segment and an
\* estimate on a later one, and pitches has returned.
C5_Witness ==
    /\ api = "pitches"
    /\ pc = "returned"
    /\ Len(calls) >= 3
    /\ calls[1].result.pitch = None
    /\ calls[2].result.pitch # None
    /\ calls[3].result.pitch = None

(***************************************************************************)
(* Claims about the spectral gate (under SpecGate).                        *)
(***************************************************************************)

\* The noise level the claims give bin i: the stored magnitude when the
\* profile has that bin, 0 otherwise.
ClaimedNoise(i) ==
    IF i \in 1..Len(gate.noise_magnitudes) THEN gate.noise_magnitudes[i] ELSE 0

\* threshold = noise_level * threshold_multiplier, in thousandths.
ClaimedThreshold(i) == ClaimedNoise(i) * db_to_linear(gate.config.noise_threshold_db)

\* clamp(magnitude / threshold, 0, 1), in thousandths.
ClaimedGain(i) ==
    LET ratio == (Norm(last.spectrum[i]) * Milli * Milli) \div ClaimedThreshold(i)
    IN  IF ratio < 0 THEN 0 ELSE IF ratio > Milli THEN Milli ELSE ratio

\* C6: process gates every bin i of the transformed input by itself: a bin at
\* or above threshold = noise_magnitudes[i] (0 beyond the profile) times the
\* threshold multiplier is untouched; a bin below it has its real and its
\* imaginary part multiplied by clamp(magnitude / threshold, 0, 1); a bin
\* whose noise level is 0 is unmodified.
C6_PerBinGating ==
    (last.op = "process" /\ last.input # << >>) =>
        /\ last.spectrum = from_waveform(last.input).complex
        /\ Len(last.gated) = Len(last.spectrum)
        /\ \A i \in 1..Len(last.spectrum) :
               LET bin == last.spectrum[i]
               IN  /\ Norm(bin) * Milli >= ClaimedThreshold(i) => last.gated[i] = bin
                   /\ ClaimedNoise(i) = 0 => last.gated[i] = bin
                   /\ (Norm(bin) * Milli < ClaimedThreshold(i) /\ ClaimedNoise(i) > 0) =>
                          last.gated[i] =
                              [re |-> TruncDiv(bin.re * ClaimedGain(i), Milli),
                               im |-> TruncDiv(bin.im * ClaimedGain(i), Milli)]

\* C6 witness: one call of process attenuated a bin, left a bin with a noise
\* reference untouched, and left a non-zero bin beyond the end of a shorter
\* noise profile unmodified.
C6_Witness ==
    /\ last.op = "process"
    /\ \E i \in 1..Len(last.spectrum) :
          /\ ClaimedNoise(i) > 0
          /\ Norm(last.spectrum[i]) * Milli < ClaimedThreshold(i)
          /\ last.gated[i] # last.spectrum[i]
          /\ last.gated[i] # [re |-> 0, im |-> 0]
    /\ \E i \in 1..Len(last.spectrum) :
          /\ ClaimedNoise(i) > 0
          /\ Norm(last.spectrum[i]) * Milli >= ClaimedThreshold(i)
    /\ \E i \in 1..Len(last.spectrum) :
          /\ i > Len(gate.noise_magnitudes)
          /\ Norm(last.spectrum[i]) > 0

\* C7: whatever the gate's noise profile and configuration, process returns
\* as many samples as it was given; given none it returns none without
\* invoking the transform.
C7_LengthPreserved ==
    last.op = "process" =>
        /\ Len(last.output) = Len(last.input)
        /\ last.input = << >> => (last.output = << >> /\ last.transforms = 0)
        /\ last.input # << >> => last.transforms = 1

\* C7 witness: a gate whose noise profile is shorter than the input processed
\* it, after having processed the empty input.
C7_Witness ==
    /\ last.op = "process"
    /\ last.first # None
    /\ Unwrap(last.first).input = << >>
    /\ Len(last.input) > Len(gate.noise_magnitudes)
    /\ Len(gate.noise_magnitudes) > 0
    /\ last.output # last.input

\* C8: apply_gate evaluates magnitude / threshold only for a bin whose noise
\* level is positive and whose threshold is not zero.
C8_NoDivisionByZero ==
    last.op = "process" =>
        \A i \in 1..Len(last.bins) :
            last.bins[i].divided =>
                /\ ClaimedNoise(i) > 0
                /\ last.bins[i].threshold # 0
                /\ ClaimedThreshold(i) # 0

\* C8 witness: process met a bin of magnitude 0 with a positive noise level
\* and a threshold of 0 (a multiplier that underflowed), and did not divide.
C8_Witness ==
    /\ last.op = "process"
    /\ \E i \in 1..Len(last.bins) :
          /\ ClaimedNoise(i) > 0
          /\ last.bins[i].threshold = 0
          /\ Norm(last.spectrum[i]) = 0
          /\ ~ last.bins[i].divided

\* C9: process leaves the gate (noise profile, magnitude array, configuration)
\* as it found it, and on an unchanged gate the same input gives the same
\* output whatever was processed in between.
C9_ProcessIsPure ==
    last.op = "process" =>
        /\ gate = last.before
        /\ (last.first # None /\ Unwrap(last.first).input = last.input) =>
               last.output = Unwrap(last.first).output

\* C9 witness: an input that the gate changes was processed, then another
\* input, then the first one again.
C9_Witness ==
    /\ last.op = "process"
    /\ last.first # None
    /\ Unwrap(last.first).input = last.input
    /\ last.mixed
    /\ last.output # last.input

\* C10: in every state the stored noise magnitude array is
\* compute_noise_magnitudes applied to the stored noise profile and the
\* stored configuration.
C10_MagnitudesInSync ==
    gate.noise_magnitudes =
        compute_noise_magnitudes_static(gate.noise_spectrum, gate.config)

\* C10 witness: update_config switched smoothing on and the magnitude array
\* changed with it.
C10_Witness ==
    /\ last.op = "update_config"
    /\ last.before.config.smoothing_window <= 1
    /\ gate.config.smoothing_window > 1
    /\ gate.noise_magnitudes # last.before.noise_magnitudes

(***************************************************************************)
(* C11: update_config(c) installs c and leaves the noise profile as it     *)
(* was; update_noise_profile(p) installs p and leaves the configuration as *)
(* it was.                                                                 *)
(***************************************************************************)
C11_UpdatesKeepTheOtherField ==
    /\ last.op = "update_config" =>
          /\ gate.config = last.arg
          /\ gate.noise_spectrum = last.before.noise_spectrum
    /\ last.op = "update_noise_profile" =>
          /\ gate.noise_spectrum = last.arg
          /\ gate.config = last.before.config

\* A profile was replaced by a different one in a gate whose configuration
\* is not the default one.
C11_Witness ==
    /\ last.op = "update_noise_profile"
    /\ last.arg # last.before.noise_spectrum
    /\ gate.config # DefaultConfig
    /\ gate.noise_magnitudes # last.before.noise_magnitudes

(***************************************************************************)
(* C12: with smoothing_window 0 or 1 the noise magnitudes are the          *)
(* magnitudes of the profile's bins, one per bin, and building them did    *)
(* not call smooth_magnitudes.                                             *)
(***************************************************************************)
RawMagnitudes(spectrum) ==
    [i \in 1..Len(spectrum.complex) |-> Norm(spectrum.complex[i])]

C12_NoSmoothingUpToOne ==
    gate.config.smoothing_window <= 1 =>
        /\ gate.noise_magnitudes = RawMagnitudes(gate.noise_spectrum)
        /\ Len(gate.noise_magnitudes) = Len(gate.noise_spectrum.complex)
        /\ last.op # "process" => ~last.smoothed

\* A gate that smoothed its magnitudes was reconfigured with a window of one
\* bin, and its magnitudes went back to the unsmoothed ones.
C12_Witness ==
    /\ last.op = "update_config"
    /\ gate.config.smoothing_window = 1
    /\ last.before.config.smoothing_window > 1
    /\ gate.noise_magnitudes # last.before.noise_magnitudes
    /\ gate.noise_magnitudes = RawMagnitudes(gate.noise_spectrum)

(***************************************************************************)
(* C13: with smoothing_window = w > 1, every bin of the noise magnitudes   *)
(* is the mean of the raw magnitudes over a window of w bins centred on    *)
(* the bin and cut at the ends of the array: w bins for an interior bin,   *)
(* the bins that exist for an edge bin.  For an even w a window of w bins  *)
(* around bin i starts at i - w/2 or at i - w/2 + 1; either is accepted.   *)
(***************************************************************************)
MeanOver(magnitudes, lo, hi) ==
    Sum(Slice(magnitudes, lo - 1, hi - lo + 1)) \div (hi - lo + 1)

CentredMean(magnitudes, w, i, first_bin) ==
    MeanOver(magnitudes, Max(first_bin, 1), Min(first_bin + w - 1, Len(magnitudes)))

C13_CentredWindowOfWidthW ==
    LET w   == gate.config.smoothing_window
        raw == RawMagnitudes(gate.noise_spectrum)
    IN  w > 1 =>
            /\ Len(gate.noise_magnitudes) = Len(raw)
            /\ \A i \in 1..Len(raw) :
                  \E first_bin \in {i - (w \div 2), i - ((w - 1) \div 2)} :
                      gate.noise_magnitudes[i] = CentredMean(raw, w, i, first_bin)

(***************************************************************************)
(* Claims about ThreadSafeYinDetector (under SpecYin).                     *)
(***************************************************************************)
Estimating == {t \in Threads : yin.pc[t] = "estimating"}

(***************************************************************************)
(* C14: a detector and its clones share one estimator; at most one thread  *)
(* runs the estimate at a time; the lock is held by a thread exactly while *)
(* that thread is inside the estimate of a get_mono_pitch call, so never   *)
(* between two calls.                                                      *)
(***************************************************************************)
C14_OneEstimatorOneThread ==
    /\ \A t \in Threads, u \in Threads :
          (yin.handle[t] # None /\ yin.handle[u] # None) =>
              Unwrap(yin.handle[t]).detector = Unwrap(yin.handle[u]).detector
    /\ Cardinality(Estimating) <= 1
    /\ \A e \in Estimators, t \in Threads :
          yin.mutex[e].holder = Some(t) <=>
              (t \in Estimating /\ Unwrap(yin.handle[t]).detector = e)

\* A clone waits at the lock while the thread of the original detector is
\* inside the estimate, after a call has already returned.
C14_Witness ==
    /\ yin.pc[1] = "estimating"
    /\ yin.pc[2] = "locking"
    /\ yin.handle[2] # None
    /\ yin.returned > 0

\* the estimator behind the detector of thread t
EstimatorOf(t) == Unwrap(yin.handle[t]).detector

(***************************************************************************)
(* C28: an estimate that faults while the lock is held leaves the lock     *)
(* poisoned; the lock stays poisoned, and from then on every call of       *)
(* get_mono_pitch through a detector of that estimator, the original or a  *)
(* clone, faults when it acquires the lock: none enters the estimate and   *)
(* none returns.                                                           *)
(***************************************************************************)
C28_FaultPoisonsForAll ==
    [][\A t \in Threads :
          /\ (yin.pc[t] = "estimating" /\ yin'.pc[t] = "panicked") =>
                yin'.mutex[EstimatorOf(t)].poisoned
          /\ \A e \in Estimators : yin.mutex[e].poisoned => yin'.mutex[e].poisoned
          /\ (yin.pc[t] = "locking" /\ yin.mutex[EstimatorOf(t)].poisoned) =>
                /\ yin'.pc[t] \in {"locking", "panicked"}
                /\ yin'.result[t] = yin.result[t]
                /\ yin'.returned = yin.returned]_vars

\* The estimate of thread 1 has faulted on a signal of the wrong length, and
\* the call of thread 2, through a clone and with a signal of the right
\* length, has faulted at the lock.
C28_Witness ==
    /\ yin.pc[1] = "panicked"
    /\ Len(yin.signal[1]) # YinWindow
    /\ yin.pc[2] = "panicked"
    /\ Len(yin.signal[2]) = YinWindow
    /\ yin.mutex[1].poisoned

(***************************************************************************)
(* Claims about LatencyMetrics (under SpecLatency).                        *)
(***************************************************************************)
BothPresent(a, b) == a # None /\ b # None

\* The statement of C15 as written: present exactly when both instants are,
\* and then the difference of the two instants.
C15_Original ==
    LET m == metrics.m
    IN  /\ processing_duration(m) # None <=> BothPresent(m.processing_start, m.processing_end)
        /\ processing_duration(m) # None =>
              Unwrap(processing_duration(m)) =
                  Unwrap(m.processing_end) - Unwrap(m.processing_start)
        /\ total_latency(m) # None <=> BothPresent(m.callback_timestamp, m.processing_end)
        /\ total_latency(m) # None =>
              Unwrap(total_latency(m)) =
                  Unwrap(m.processing_end) - Unwrap(m.callback_timestamp)

(***************************************************************************)
(* C15: processing_duration() is present exactly when processing_start    *)
(* and processing_end are, and is then processing_end - processing_start   *)
(* when the end was marked at or after the start and zero when it was      *)
(* marked before it; total_latency() is present exactly when the callback  *)
(* timestamp and processing_end are, and is then processing_end minus the  *)
(* callback timestamp.  Neither reads another field.                       *)
(***************************************************************************)
C15_DurationsFromTheirInstants ==
    LET m == metrics.m
    IN  /\ processing_duration(m) # None <=> BothPresent(m.processing_start, m.processing_end)
        /\ processing_duration(m) # None =>
              Unwrap(processing_duration(m)) =
                  IF Unwrap(m.processing_start) <= Unwrap(m.processing_end)
                  THEN Unwrap(m.processing_end) - Unwrap(m.processing_start)
                  ELSE 0
        /\ total_latency(m) # None <=> BothPresent(m.callback_timestamp, m.processing_end)
        /\ total_latency(m) # None =>
              Unwrap(total_latency(m)) =
                  Unwrap(m.processing_end) - Unwrap(m.callback_timestamp)

\* Start and end were marked in this order at different times, after the
\* callback, with a device latency set: the two durations differ.
C15_Witness ==
    LET m == metrics.m
    IN  /\ BothPresent(m.processing_start, m.processing_end)
        /\ BothPresent(m.callback_timestamp, m.input_device_latency)
        /\ Unwrap(m.callback_timestamp) < Unwrap(m.processing_start)
        /\ Unwrap(m.processing_start) < Unwrap(m.processing_end)
        /\ processing_duration(m) # total_latency(m)

(***************************************************************************)
(* C16: end_to_end_latency() is total_latency + device latency when both   *)
(* are present, the one that is present when only one is (5 ms when only a *)
(* device latency of 5 ms is set), and absent when neither is.             *)
(***************************************************************************)
C16_EndToEndDegrades ==
    LET m      == metrics.m
        total  == total_latency(m)
        device == m.input_device_latency
        e2e    == end_to_end_latency(m)
    IN  /\ (total # None /\ device # None) => e2e = Some(Unwrap(total) + Unwrap(device))
        /\ (total # None /\ device = None) => e2e = total
        /\ (total = None /\ device # None) => e2e = device
        /\ (total = None /\ device = None) => e2e = None
        /\ (total = None /\ device = Some(5)) => e2e = Some(5)

\* Only a device latency of 5 ms is known: no callback timestamp and no
\* processing_end, although the start was marked.
C16_Witness ==
    LET m == metrics.m
    IN  /\ m.input_device_latency = Some(5)
        /\ m.callback_timestamp = None
        /\ m.processing_end = None
        /\ m.processing_start # None
        /\ end_to_end_latency(m) = Some(5)

(***************************************************************************)
(* Claims about the quiet-segment detector (under SpecQuiet).              *)
(***************************************************************************)
\* The sample index of a time in milliseconds.
IndexAtMs(ms, sample_rate) == (ms * sample_rate) \div 1000

CandidateStart == IndexAtMs(200, quiet.audio.sample_rate)
CandidateEnd   == Min(IndexAtMs(1500, quiet.audio.sample_rate), Len(quiet.audio.samples))
Candidate      == SubSeq(quiet.audio.samples, CandidateStart + 1, CandidateEnd)

\* The buffer cut into consecutive chunks of `size` samples from its start;
\* the samples left after the last whole chunk make a last, shorter chunk.
ChunksOfLength(samples, size) ==
    [k \in 1..((Len(samples) + size - 1) \div size) |->
        SubSeq(samples, (k - 1) * size + 1, Min(k * size, Len(samples)))]

\* (RMS(candidate) - mean of the chunk RMS) / their standard deviation is
\* below -1.0; a negative difference over a zero deviation is -infinity.
CandidateScoresBelowMinusOne ==
    LET parts   == ChunksOfLength(quiet.audio.samples, Len(Candidate))
        values  == [k \in 1..Len(parts) |-> Unwrap(rms(parts[k]))]
        msd     == Unwrap(mean_std_deviation(values))
        diff    == Unwrap(rms(Candidate)) - msd.mean
    IN  IF msd.std_dev = 0 THEN diff < 0
        ELSE TruncDiv(diff * Milli, msd.std_dev) < -Milli

C18_ZeroDeviationIsNoSegment ==
    (/\ quiet.op # "none"
     /\ quiet.result.stats # None
     /\ Unwrap(quiet.result.stats).rms_stddev = 0) =>
        /\ quiet.result.window = None
        /\ quiet.result.spectrum = None

(***************************************************************************)
(* C19: estimate_noise_spectrum returns no profile, and does not panic,    *)
(* for an empty recording and for every recording whose candidate start    *)
(* index is at or after its candidate end index.                           *)
(***************************************************************************)
C19_TooShortIsNoProfile ==
    (/\ quiet.op # "none"
     /\ \/ quiet.audio.samples = << >>
        \/ CandidateStart >= CandidateEnd) =>
        /\ quiet.result.spectrum = None
        /\ ~quiet.result.panicked

\* A recording that is not empty but ends before the 200 ms mark.
C19_Witness ==
    /\ quiet.op = "estimate_noise_spectrum"
    /\ quiet.audio.samples # << >>
    /\ CandidateStart > CandidateEnd
    /\ quiet.result.spectrum = None
    /\ ~quiet.result.panicked

(***************************************************************************)
(* Claims about Spectrum (under SpecSpectrum).                             *)
(***************************************************************************)

(***************************************************************************)
(* C20: for a waveform of N >= 0 samples, from_waveform gives N complex    *)
(* bins with n = N, magnitudes() gives floor(N / 2) values and             *)
(* to_time_domain() gives N values; for N = 0 all three are empty, nothing *)
(* panics and nothing is divided by zero.                                  *)
(***************************************************************************)
C20_LengthsFollowN ==
    LET N == Len(spect.waveform)
    IN  /\ spect.spectrum # None =>
              /\ Len(Unwrap(spect.spectrum).complex) = N
              /\ Unwrap(spect.spectrum).n = N
        /\ spect.magnitudes # None =>
              /\ ~Unwrap(spect.magnitudes).panicked
              /\ Len(Unwrap(spect.magnitudes).values) = N \div 2
        /\ spect.time_domain # None =>
              /\ ~Unwrap(spect.time_domain).divided_by_zero
              /\ Len(Unwrap(spect.time_domain).values) = N
        /\ N = 0 =>
              /\ spect.spectrum # None => Unwrap(spect.spectrum).complex = << >>
              /\ spect.magnitudes # None => Unwrap(spect.magnitudes).values = << >>
              /\ spect.time_domain # None => Unwrap(spect.time_domain).values = << >>

\* The empty waveform was transformed, and both its magnitudes and its
\* inverse transform were taken.
C20_Witness ==
    /\ spect.waveform = << >>
    /\ spect.spectrum # None
    /\ spect.magnitudes # None
    /\ spect.time_domain # None
    /\ Unwrap(spect.magnitudes).values = << >>
    /\ Unwrap(spect.time_domain).values = << >>

\* 1e-5 in units of 2^-17: two values differ by less than 1e-5 when they
\* differ by at most one unit.
RoundTripTolerance == 1

RoundTripError(i) ==
    Abs(Unwrap(spect.time_domain).values[i] - spect.waveform[i])

\* The statement of C21 as written: every waveform comes back within 1e-5.
C21_Original ==
    spect.time_domain # None =>
        /\ Len(Unwrap(spect.time_domain).values) = Len(spect.waveform)
        /\ \A i \in 1..Len(spect.waveform) : RoundTripError(i) <= RoundTripTolerance

(***************************************************************************)
(* C21: for a waveform w of N samples, each between -1.0 and 1.0,          *)
(* to_time_domain(from_waveform(w)) has N samples and each is within 1e-5  *)
(* of the sample of w.  (Above that range the rounding of f32 additions    *)
(* exceeds 1e-5.)                                                          *)
(***************************************************************************)
C21_RoundTripWithinFullScale ==
    (/\ spect.time_domain # None
     /\ \A i \in 1..Len(spect.waveform) : Abs(spect.waveform[i]) <= SampleOne) =>
        /\ Len(Unwrap(spect.time_domain).values) = Len(spect.waveform)
        /\ \A i \in 1..Len(spect.waveform) : RoundTripError(i) <= RoundTripTolerance

\* The waveform of test_spectrum_to_time_domain_identity went through both
\* transforms.
C21_Witness ==
    /\ spect.waveform = <<SampleOne, 0, -SampleOne, 0>>
    /\ spect.time_domain # None
    /\ Unwrap(spect.time_domain).values = spect.waveform

(***************************************************************************)
(* Claims about ReviewItem (under SpecReview).                             *)
(***************************************************************************)

(***************************************************************************)
(* C22: every record_review adds one to total_reviews; a quality below 3   *)
(* sets consecutive_correct and interval to 0; a quality of 3 or more adds *)
(* one to consecutive_correct and sets the interval to 1 day when that     *)
(* count becomes 1, to 6 days when it becomes 2, and otherwise to the      *)
(* previous interval times the updated easiness.                           *)
(***************************************************************************)
C22_ReviewUpdatesCounters ==
    review.rating # None =>
        LET q      == quality(Unwrap(review.rating))
            item   == review.item
            before == review.before
        IN  /\ item.total_reviews = before.total_reviews + 1
            /\ q < 3 => (item.consecutive_correct = 0 /\ item.interval = 0)
            /\ q >= 3 =>
                  /\ item.consecutive_correct = before.consecutive_correct + 1
                  /\ item.consecutive_correct = 1 => item.interval = 100
                  /\ item.consecutive_correct = 2 => item.interval = 600
                  /\ item.consecutive_correct > 2 =>
                        item.interval = (before.interval * item.easiness) \div 100

\* A third successful review in a row, which changed the easiness.
C22_Witness ==
    /\ review.rating # None
    /\ review.item.consecutive_correct = 3
    /\ review.item.easiness # review.before.easiness
    /\ review.item.interval > 600

(***************************************************************************)
(* C23: the easiness is 2.5 at first and at least 1.3 after any sequence   *)
(* of reviews.                                                             *)
(***************************************************************************)
C23_EasinessAtLeastFloor ==
    /\ review.item.easiness >= 130
    /\ review.item.total_reviews = 0 => review.item.easiness = 250

\* Two blackouts in a row: without the bound the easiness would be 0.9.
C23_Witness ==
    /\ review.item.total_reviews = 2
    /\ review.rating = Some("Blackout")
    /\ review.before.easiness = 170
    /\ review.item.easiness = 130

(***************************************************************************)
(* Claims about MicrophoneRecorder (under SpecMic).                        *)
(***************************************************************************)

(***************************************************************************)
(* C24: is_recording() is true exactly when the recorder has a stream and  *)
(* start() has been called on it: a recorder just returned by new()        *)
(* reports that it is not recording.                                       *)
(***************************************************************************)
C24_RecordingIffStarted ==
    mic.alive =>
        (MicrophoneRecorder_is_recording(mic.self) <=>
            (mic.self.stream # None /\ mic.started))

(***************************************************************************)
(* Claims about PitchProcessor (under SpecProcessor).                      *)
(***************************************************************************)

(***************************************************************************)
(* C25: process_audio_chunk never calls its detector with a signal whose   *)
(* length differs from WINDOW_SIZE: whatever the length of the chunk, the  *)
(* detector is called with exactly WINDOW_SIZE samples, or it is not       *)
(* called and the result is 'no result'.                                   *)
(***************************************************************************)
C25_DetectorOnlyOnWindowSize ==
    processor.chunks > 0 =>
        \/ /\ processor.invoked # None
           /\ Len(Unwrap(processor.invoked)) = WINDOW_SIZE
        \/ /\ processor.invoked = None
           /\ processor.outcome = "None"

(***************************************************************************)
(* Claims about the live-capture callback (under SpecCapture).             *)
(***************************************************************************)
RECURSIVE Flatten(_)
Flatten(seqs) == IF seqs = << >> THEN << >> ELSE Head(seqs) \o Flatten(Tail(seqs))

\* a callback has returned
AtCallbackBoundary == capture.pc = "idle" /\ capture.entered

(***************************************************************************)
(* C26: every block handed to pitch processing has exactly window_size     *)
(* samples; when a callback has returned, fewer than window_size samples   *)
(* are buffered, and the callback has handed over as many blocks as the    *)
(* buffer held (its length before the loop divided by window_size).        *)
(***************************************************************************)
C26_BlocksOfWindowSize ==
    /\ \A i \in 1..Len(capture.blocks) : Len(capture.blocks[i]) = capture.window_size
    /\ AtCallbackBoundary =>
          /\ Len(capture.audio_buffer) < capture.window_size
          /\ capture.handed = capture.entry \div capture.window_size

C26_Witness ==
    /\ AtCallbackBoundary
    /\ capture.handed = 2
    /\ capture.window_size = 2
    /\ capture.entry = 4

(***************************************************************************)
(* C27: no sample is lost, duplicated or reordered: whenever a callback    *)
(* has returned, the blocks handed to pitch processing so far, in order,   *)
(* followed by the buffered samples are the mono samples delivered so far, *)
(* whatever hop_size is.                                                   *)
(***************************************************************************)
C27_BlocksThenBufferAreDelivered ==
    AtCallbackBoundary =>
        Flatten(capture.blocks) \o capture.audio_buffer = capture.delivered

C27_Witness ==
    /\ AtCallbackBoundary
    /\ Len(capture.blocks) >= 2
    /\ capture.hop_size < capture.window_size
    /\ capture.audio_buffer # << >>
    /\ capture.channels = 2

(***************************************************************************)
(* Claims about AudioRecorder (under SpecRecorder).                        *)
(***************************************************************************)

(***************************************************************************)
(* C29: a recorder holds at most one stream.  A start() while a stream is  *)
(* active returns the error 'Already recording', builds no stream and      *)
(* leaves the active one as it was; stop() returns Ok and leaves no stream *)
(* (also when there was none); a start() without an active stream, so      *)
(* after a stop(), is not turned down as 'Already recording', and keeps    *)
(* the stream it built when it returns Ok.                                 *)
(***************************************************************************)
C29_AtMostOneStream ==
    /\ Cardinality(recorder.live) <= 1
    /\ recorder.live = LiveStreams(recorder.self)
    /\ (recorder.op = "start" /\ recorder.before.stream # None) =>
          /\ recorder.result = "Err(Already recording)"
          /\ recorder.self = recorder.before
          /\ \A st \in recorder.live : st.id = recorder.built
    /\ recorder.op = "stop" =>
          /\ recorder.result = "Ok"
          /\ recorder.self.stream = None
    /\ (recorder.op = "start" /\ recorder.before.stream = None) =>
          /\ recorder.result # "Err(Already recording)"
          /\ recorder.result = "Ok" <=> recorder.self.stream # None

\* start() was turned down while the second stream of the recorder was
\* active: the recorder had been started, stopped and started again.
C29_Witness ==
    /\ recorder.op = "start"
    /\ recorder.result = "Err(Already recording)"
    /\ recorder.self.stream # None
    /\ Unwrap(recorder.self.stream).id = 2
    /\ recorder.built = 2

(***************************************************************************)
(* Claims about the end of the windowing (under SpecTrackFair).            *)
(***************************************************************************)

\* step_size = 0 on a buffer that holds a window
ZeroStepWithWindow ==
    tracker.step_size = 0 /\ tracker.window_size <= Len(audio.samples)

\* the next() of the iterator of the entry point, at the current position
IteratorNext ==
    IF api = "strided"
    THEN LET r == StridedChunks_next(audio.samples, tracker.window_size,
                                     tracker.step_size, position)
         IN  [item |-> r.item, position |-> r.current_index]
    ELSE LET r == SlidingWindows_next(audio.samples, audio.sample_rate,
                                      tracker.window_size, tracker.step_size, position)
         IN  [item |-> r.item, position |-> r.position]

(***************************************************************************)
(* C30: step_size = 0 is accepted.  With step_size = 0 and a buffer that   *)
(* holds a window, the position never advances, every segment is the first *)
(* window again, the iterator never ends and pitches / pitch_track never   *)
(* return.  With step_size >= 1 the iteration ends, after no more segments *)
(* than the buffer has samples (and one), and once the iterator has ended  *)
(* its next() is 'end' again and leaves the position alone.                *)
(***************************************************************************)
C30_ZeroStepNeverEnds ==
    /\ [](ZeroStepWithWindow =>
            /\ position = 0
            /\ pc # "returned"
            /\ IteratorNext.item # None
            /\ \A i \in 1..Len(windows) :
                  windows[i] = MonoAudio(Slice(audio.samples, 0, tracker.window_size),
                                         audio.sample_rate))
    /\ [](tracker.step_size >= 1 =>
            /\ Len(windows) <= Len(audio.samples) + 1
            /\ <>(pc # "iterating"))
    /\ []((pc = "returned" /\ api # "pitch_track") =>
            /\ IteratorNext.item = None
            /\ IteratorNext.position = position)

\* pitches has gone through MaxYield segments with step_size = 0, as far as
\* the run is followed, and is still iterating.
C30_Witness ==
    /\ api = "pitches"
    /\ ZeroStepWithWindow
    /\ tracker.window_size >= 1
    /\ Len(windows) = MaxYield
    /\ Len(pitches) = MaxYield
    /\ pc = "iterating"

====
